---- MODULE Spec2Model ----
(***************************************************************************)
(* Model of the website performance-assessment engine:                     *)
(*   - the streaming orchestrator runPerformanceTest and its simulated     *)
(*     stages (route handler, src/unnamed/part_000),                       *)
(*   - the scoring engine generateTestResults (part_000) and               *)
(*     calculateOverallScore (part_001),                                   *)
(*   - the browser-driven load generator runLoadTest (part_001),           *)
(*   - the page that submits a run and reads its stream (part_000) and the *)
(*     navigation operations of PuppeteerPerformanceTester (part_001),     *)
(*   - runComprehensiveTest and concurrent runs of runTest (part_001).     *)
(*                                                                         *)
(* Numbers: a time the code formats with toFixed(2) is held in hundredths  *)
(* of a second; a time the code keeps as a float of seconds from           *)
(* performance.now() is held in milliseconds.  A JavaScript object is a    *)
(* record, an absent key is a key outside DOMAIN.                          *)
(***************************************************************************)
EXTENDS Integers, Sequences, FiniteSets, TLC

VARIABLES
    \* ---- scoring engine harness ----
    sUrl,        \* url argument of generateTestResults
    testData,    \* the metrics bundle argument of generateTestResults
                 \* (the empty record when the harness scores cResults)
    cResults,    \* the results argument of calculateOverallScore
                 \* (the empty record when the harness scores testData)
    now,         \* wall clock read by new Date()
    reports,     \* the Reports returned by successive calls, in call order
    overall,     \* the performanceScore values returned, in call order
    \* ---- the page that submits a run (client runPerformanceTest) ----
    input,           \* the text of the URL field, a sequence of characters
    cpc,             \* where the client handler is
    \* ---- streaming orchestrator (one run of POST / runPerformanceTest) ----
    head,            \* the HEAD requests the load-time probe has issued
    url,             \* request body: url, a sequence of characters
    testConfig,      \* request body: testConfig
    pc,              \* where runPerformanceTest is suspended
    loopI,           \* loop index of the stage in progress
    msgs,            \* the messages enqueued on the stream controller, in order
    closed,          \* controller.close() has returned
    cancelled,       \* the consumer has cancelled (disconnected) the stream
    thrown,          \* an exception reached the catch block of line 127
    started,         \* the stages whose function has been called
    completed,       \* the stages whose function has returned
    loadTime,        \* const loadTime, in hundredths of a second
    brokenLinks,     \* const brokenLinks
    mobileScore,     \* const mobileScore
    loadTestResults, \* const loadTestResults
    \* ---- browser-driven load generator (one call of runLoadTest) ----
    options,         \* the options argument: concurrent, duration
    lpc,             \* where runLoadTest is suspended
    elapsed,         \* (Date.now() - startTime) / 1000, whole seconds
    batch,           \* the promises of the batch in flight
    results,         \* const results: the outcomes recorded so far
    batches,         \* number of batches settled so far
    summary,         \* the value runLoadTest returns
    \* ---- one navigation operation of PuppeteerPerformanceTester ----
    op,              \* the method called
    npc,             \* where the method is suspended
    browsers,        \* this.browsers: the number of handles pushed
    browserOpen,     \* the browser the call launched is open
    pageOpen,        \* the page the call created is open
    promise,         \* how the promise of the call has settled
    \* ---- one call of runComprehensiveTest ----
    ctConfig,        \* the config argument
    ctTestConfig,    \* const testConfig: the defaults overridden by config
    ctResults,       \* const results
    ctStage,         \* index of the stage whose probe is awaited, 0 for none
    ctpc,            \* where runComprehensiveTest is suspended
    ctStarted,       \* the stages started, in the order they were started
    ctCompleted,     \* the stages whose probe has resolved
    ctError,         \* the message of the error the call rejects with
    \* ---- the page reading the response stream (client reader loop) ----
    readTo,          \* how much of the response body the reader has been given
    splits,          \* the reads that ended inside a line
    progress,        \* React state: progress
    currentTest,     \* React state: currentTest ("" for null)
    realtimeMetrics, \* React state: realtimeMetrics
    testResults,     \* React state: testResults (no key for null)
    applied,         \* the data the reader has parsed and applied, in order
    \* ---- concurrent runs of runTest, each on its own tester ----
    testers,         \* per run: where it is, its this.browsers, the probes done
    opened,          \* the browser handles that are open
    handles          \* the number of browsers launched so far

vars == <<input, cpc, head, url, testConfig, pc, loopI, msgs, closed, cancelled, thrown, started,
          completed, loadTime, brokenLinks, mobileScore, loadTestResults>>

scoreVars == <<sUrl, testData, cResults, now, reports, overall>>

loadVars == <<options, lpc, elapsed, batch, results, batches, summary>>

navVars == <<op, npc, browsers, browserOpen, pageOpen, promise>>

compVars == <<ctConfig, ctTestConfig, ctResults, ctStage, ctpc, ctStarted, ctCompleted, ctError>>

readVars == <<readTo, splits, progress, currentTest, realtimeMetrics, testResults, applied>>

runVars == <<testers, opened, handles>>

allVars == <<scoreVars, vars, loadVars, navVars, compVars, readVars, runVars>>

\* what a step of one component leaves alone
notScore == <<vars, loadVars, navVars, compVars, readVars, runVars>>

notOrch == <<scoreVars, loadVars, navVars, compVars, readVars, runVars>>

notLoad == <<scoreVars, vars, navVars, compVars, readVars, runVars>>

notNav == <<scoreVars, vars, loadVars, compVars, readVars, runVars>>

notComp == <<scoreVars, vars, loadVars, navVars, readVars, runVars>>

notRead == <<scoreVars, loadVars, navVars, compVars, runVars>>

notRuns == <<scoreVars, vars, loadVars, navVars, compVars, readVars>>

(***************************************************************************)
(* Helpers of the JavaScript runtime.                                      *)
(***************************************************************************)
Has(r, k) == k \in DOMAIN r

Max2(a, b) == IF a >= b THEN a ELSE b

Min2(a, b) == IF a <= b THEN a ELSE b

\* Math.max(0, Math.min(100, x))
Clamp100(x) == Max2(0, Min2(100, x))

\* Math.round(n / d) for d > 0: the nearest integer, halves towards +infinity
RoundDiv(n, d) == (2 * n + d) \div (2 * d)

\* (hundredths * 1.2).toFixed(2), again in hundredths
MulFixed12(h) == RoundDiv(h * 12, 10)

RECURSIVE SeqSum(_)
SeqSum(s) == IF s = <<>> THEN 0 ELSE Head(s) + SeqSum(Tail(s))

RECURSIVE SeqMax(_)
SeqMax(s) == IF Len(s) = 1 THEN s[1] ELSE Max2(Head(s), SeqMax(Tail(s)))

RECURSIVE SeqMin(_)
SeqMin(s) == IF Len(s) = 1 THEN s[1] ELSE Min2(Head(s), SeqMin(Tail(s)))

\* issues.filter((issue) => issue.severity === severity).length
CountSeverity(s, severity) ==
    Cardinality({k \in 1..Len(s) : s[k].severity = severity})

(***************************************************************************)
(* generateTestResults(url, testData): part_000 lines 262-335.             *)
(* testData.loadTime is the toFixed(2) string, held in hundredths;         *)
(* Number.parseFloat of it compares against 1, 2, 3, 4 seconds.            *)
(***************************************************************************)
\* the brackets add up instead of excluding each other
LoadTimeDeductionCumulative(t) ==
    (IF t > 300 THEN 20 ELSE 0) + (IF t > 200 THEN 10 ELSE 0)
        + (IF t > 100 THEN 5 ELSE 0)

\* the values of the two worst brackets exchanged
LoadTimeDeductionSwapped(t) ==
    IF t > 300 THEN 10
    ELSE IF t > 200 THEN 20
    ELSE IF t > 100 THEN 5
    ELSE 0

LoadTimeDeduction(t) ==
    IF t > 300 THEN 20
    ELSE IF t > 200 THEN 10
    ELSE IF t > 100 THEN 5
    ELSE 0

MobileDeduction(m) ==
    IF m < 80 THEN 15
    ELSE IF m < 90 THEN 5
    ELSE 0

\* the score without line 285
ScoreOfUnclamped(data) ==
    100 - LoadTimeDeduction(data.loadTime) - MobileDeduction(data.mobileScore)
        - data.loadTestResults.failedRequests * 5 - Len(data.brokenLinks) * 10

\* lines 267-285 and 325: every term is an integer, so the Math.round of
\* line 325 leaves the clamped value as it is
ScoreOf(data) ==
    Clamp100(100 - LoadTimeDeduction(data.loadTime)
                 - MobileDeduction(data.mobileScore)
                 - data.loadTestResults.failedRequests * 5
                 - Len(data.brokenLinks) * 10)

\* "high" only above 5 seconds
LoadTimeIssueHighAbove5(data) ==
    IF data.loadTime > 200
    THEN << [severity |-> IF data.loadTime > 500 THEN "high" ELSE "medium",
             description |-> <<"Page load time is ", ToString(data.loadTime),
                               "s, which may impact user experience">>] >>
    ELSE <<>>

LoadTimeIssue(data) ==
    IF data.loadTime > 200
    THEN << [severity |-> IF data.loadTime > 400 THEN "high" ELSE "medium",
             description |-> <<"Page load time is ", ToString(data.loadTime),
                               "s, which may impact user experience">>] >>
    ELSE <<>>

MobileIssue(data) ==
    IF data.mobileScore < 85
    THEN << [severity |-> "medium",
             description |-> <<"Mobile responsiveness could be improved">>] >>
    ELSE <<>>

BrokenLinksIssue(data) ==
    IF Len(data.brokenLinks) > 0
    THEN << [severity |-> "high",
             description |-> <<"Found ", ToString(Len(data.brokenLinks)),
                               " broken links">>] >>
    ELSE <<>>

FailedRequestsIssue(data) ==
    IF data.loadTestResults.failedRequests > 0
    THEN << [severity |-> "medium",
             description |-> <<ToString(data.loadTestResults.failedRequests),
                               " requests failed during load testing">>] >>
    ELSE <<>>

\* lines 287-320: issues are pushed in this order
IssuesOf(data) ==
    LoadTimeIssue(data) \o MobileIssue(data) \o BrokenLinksIssue(data)
        \o FailedRequestsIssue(data)

\* one recommendation for every broken link
RecommendationsPerLink(data) ==
    (IF data.loadTime > 200
        THEN <<"Optimize images and enable compression to reduce load times">>
        ELSE <<>>)
    \o (IF data.mobileScore < 85
        THEN <<"Ensure responsive design works well on all device sizes">>
        ELSE <<>>)
    \o [k \in 1..Len(data.brokenLinks) |->
            "Fix broken links to improve user experience and SEO"]
    \o (IF data.loadTestResults.failedRequests > 0
        THEN <<"Investigate server stability under load">>
        ELSE <<>>)

\* lines 288-320: pushed with the issues, in the same order
RecommendationsOf(data) ==
    (IF data.loadTime > 200
        THEN <<"Optimize images and enable compression to reduce load times">>
        ELSE <<>>)
    \o (IF data.mobileScore < 85
        THEN <<"Ensure responsive design works well on all device sizes">>
        ELSE <<>>)
    \o (IF Len(data.brokenLinks) > 0
        THEN <<"Fix broken links to improve user experience and SEO">>
        ELSE <<>>)
    \o (IF data.loadTestResults.failedRequests > 0
        THEN <<"Investigate server stability under load">>
        ELSE <<>>)

\* the speed index derived from the clock instead of the load time
generateTestResultsClockIndex(u, data, at) ==
    [ url             |-> u,
      timestamp       |-> at,
      overallScore    |-> ScoreOf(data),
      loadTime        |-> data.loadTime,
      speedIndex      |-> MulFixed12(data.loadTime + at),
      totalRequests   |-> data.loadTestResults.totalRequests,
      failedRequests  |-> data.loadTestResults.failedRequests,
      mobileScore     |-> data.mobileScore,
      brokenLinks     |-> data.brokenLinks,
      issues          |-> IssuesOf(data),
      recommendations |-> RecommendationsOf(data) ]

\* new Date().toISOString() at line 324: the clock value `at`
generateTestResults(u, data, at) ==
    [ url             |-> u,
      timestamp       |-> at,
      overallScore    |-> ScoreOf(data),
      loadTime        |-> data.loadTime,
      speedIndex      |-> MulFixed12(data.loadTime),
      totalRequests   |-> data.loadTestResults.totalRequests,
      failedRequests  |-> data.loadTestResults.failedRequests,
      mobileScore     |-> data.mobileScore,
      brokenLinks     |-> data.brokenLinks,
      issues          |-> IssuesOf(data),
      recommendations |-> RecommendationsOf(data) ]

(***************************************************************************)
(* calculateOverallScore(results): part_001 lines 462-506.                 *)
(* totalLoadTime, lcp, fid in milliseconds; cls in thousandths.            *)
(* successRate is the fraction [num, den] * 100; den = 0 is NaN.           *)
(***************************************************************************)
DesktopOk(res) == Has(res, "desktop") /\ ~Has(res.desktop, "error")

DesktopLoadDeduction(res) ==
    IF ~DesktopOk(res) THEN 0
    ELSE LET t == res.desktop.totalLoadTime
         IN  IF t > 5000 THEN 25
             ELSE IF t > 3000 THEN 15
             ELSE IF t > 2000 THEN 10
             ELSE IF t > 1000 THEN 5
             ELSE 0

\* an undefined vital compares false
VitalsDeduction(res) ==
    IF ~DesktopOk(res) THEN 0
    ELSE LET vitals == res.desktop.webVitals
         IN  (IF Has(vitals, "lcp") /\ vitals.lcp > 2500 THEN 10 ELSE 0)
           + (IF Has(vitals, "fid") /\ vitals.fid > 100 THEN 10 ELSE 0)
           + (IF Has(vitals, "cls") /\ vitals.cls > 100 THEN 10 ELSE 0)

\* results.desktop?.totalLoadTime * 1.5 is NaN when desktop is absent or an
\* error result, and then the comparison is false
MobileLoadDeduction(res) ==
    IF Has(res, "mobile") /\ ~Has(res.mobile, "error")
       /\ Has(res, "desktop") /\ Has(res.desktop, "totalLoadTime")
       /\ 2 * res.mobile.totalLoadTime > 3 * res.desktop.totalLoadTime
    THEN 15 ELSE 0

\* Array.isArray(results.accessibility): the array checkAccessibility returns
\* is held under the key "issues", its error result is [error |-> message]
AccessibilityDeduction(res) ==
    IF Has(res, "accessibility") /\ Has(res.accessibility, "issues")
    THEN CountSeverity(res.accessibility.issues, "high") * 10
         + CountSeverity(res.accessibility.issues, "medium") * 5
    ELSE 0

calculateOverallScore(res) ==
    LET fixed == 100 - DesktopLoadDeduction(res) - VitalsDeduction(res)
                     - MobileLoadDeduction(res)
                     - AccessibilityDeduction(res)
        sr == IF Has(res, "loadTest") THEN res.loadTest.successRate
              ELSE [num |-> 0, den |-> 0]
    IN  \* successRate < 95 with successRate = 100 * num / den
        IF sr.den > 0 /\ 100 * sr.num < 95 * sr.den
        THEN \* score -= (95 - successRate) * 2, then Math.round(score)
             Clamp100(RoundDiv((fixed - 190) * sr.den + 200 * sr.num, sr.den))
        ELSE Clamp100(fixed)

(***************************************************************************)
(* Harness of the scoring engine: the inputs are drawn from bounded sets,  *)
(* the actions call the two scoring functions, the clock advances between  *)
(* calls.                                                                  *)
(***************************************************************************)
MaxNow == 2

MaxCalls == 2

\* part_000 line 197
possibleBrokenLinks == <<"/old-page", "/missing-image.jpg", "/broken-link", "/404-page">>

ScoreUrls == {"https://example.com"}

\* hundredths of a second, on both sides of every cut point of the code
LoadTimeInputs == {0, 100, 101, 200, 201, 300, 301, 400, 401, 450}

MobileInputs == {0, 65, 79, 80, 84, 85, 89, 90, 100}

FailedInputs == {0, 1, 2, 4, 20, 1000}

BrokenInputs == {SubSeq(possibleBrokenLinks, 1, n) : n \in 0..Len(possibleBrokenLinks)}

TestDataInputs ==
    [ loadTime : LoadTimeInputs,
      mobileScore : MobileInputs,
      brokenLinks : BrokenInputs,
      loadTestResults : [totalRequests : {100}, failedRequests : FailedInputs] ]

VitalsInputs ==
    { <<>>, [lcp |-> 2400], [lcp |-> 2600, cls |-> 50],
      [lcp |-> 2600, fid |-> 150, cls |-> 250] }

DesktopInputs ==
    { [error |-> "Navigation timeout"] }
    \cup [ totalLoadTime : {900, 1500, 2500, 3500, 6000}, webVitals : VitalsInputs ]

MobilePageInputs ==
    { [error |-> "Navigation timeout"] } \cup [ totalLoadTime : {1000, 5000} ]

AccessibilityInputs ==
    { [error |-> "Navigation timeout"],
      [issues |-> <<>>],
      [issues |-> << [type |-> "multiple_h1", severity |-> "low"] >>],
      [issues |-> << [type |-> "missing_alt_text", severity |-> "medium"],
                     [type |-> "unlabeled_inputs", severity |-> "high"],
                     [type |-> "missing_title", severity |-> "high"],
                     [type |-> "missing_h1", severity |-> "medium"] >>] }

\* successRate = successful / total * 100; 0 / 0 is NaN
LoadTestInputs ==
    { [successRate |-> [num |-> n, den |-> d]] :
        n \in {0, 1, 9, 19, 20}, d \in {0, 20} } \ 
    { [successRate |-> [num |-> n, den |-> 0]] : n \in {1, 9, 19, 20} }

\* a record with the key k set to v
With(r, k, v) == [x \in DOMAIN r \cup {k} |-> IF x = k THEN v ELSE r[x]]

Optional(S, k, V) == S \cup {With(r, k, v) : r \in S, v \in V}

ResultsInputs ==
    Optional(Optional(Optional(Optional({[url |-> "https://example.com"]},
        "desktop", DesktopInputs), "mobile", MobilePageInputs),
        "accessibility", AccessibilityInputs), "loadTest", LoadTestInputs)

\* time passes
ScoreTick ==
    /\ DOMAIN testData # {} \/ DOMAIN cResults # {}
    /\ now < MaxNow
    /\ now' = now + 1
    /\ UNCHANGED <<sUrl, testData, cResults, reports, overall, notScore>>

\* const results = generateTestResults(url, testData): the arguments are left
\* as they are
ScoreCall ==
    /\ DOMAIN testData # {}
    /\ Len(reports) < MaxCalls
    /\ reports' = Append(reports, generateTestResults(sUrl, testData, now))
    /\ UNCHANGED <<sUrl, testData, cResults, now, overall, notScore>>

\* results.performanceScore = this.calculateOverallScore(results)
OverallCall ==
    /\ DOMAIN cResults # {}
    /\ Len(overall) < MaxCalls
    /\ overall' = Append(overall, calculateOverallScore(cResults))
    /\ UNCHANGED <<sUrl, testData, cResults, now, reports, notScore>>


(***************************************************************************)
(* Claims about the scoring engine.                                        *)
(***************************************************************************)
Range(f) == {f[x] : x \in DOMAIN f}

\* C2: the overall score is an integer within [0,100] for every metrics
\* bundle, from generateTestResults and from calculateOverallScore; a bundle
\* with failedRequests = 1000 scores 0.
C2_ScoreInRange ==
    /\ \A n \in 1..Len(reports) :
          /\ reports[n].overallScore \in 0..100
          /\ reports[n].failedRequests = 1000 => reports[n].overallScore = 0
    /\ \A n \in 1..Len(overall) : overall[n] \in 0..100

C2_Witness ==
    \E n \in 1..Len(reports) :
        reports[n].failedRequests = 1000 /\ reports[n].overallScore = 0

\* C3 as stated: two calls of generateTestResults with the same url and the
\* same metrics bundle return Reports equal in every field.
C3_SameReport ==
    \A n, j \in 1..Len(reports) : reports[n] = reports[j]

\* C3 amended: two calls with the same url and the same metrics bundle return
\* Reports equal in every field other than timestamp, and the call leaves its
\* arguments as they were.
C3_SameReportButTimestamp ==
    \A n, j \in 1..Len(reports) :
        /\ [reports[n] EXCEPT !.timestamp = 0] = [reports[j] EXCEPT !.timestamp = 0]
        /\ reports[n].url = sUrl
        /\ reports[n].brokenLinks = testData.brokenLinks
        /\ reports[n].loadTime = testData.loadTime

C3_Witness ==
    /\ Len(reports) = 2
    /\ reports[1].timestamp # reports[2].timestamp

C4_Bundle ==
    [ loadTime |-> 450, mobileScore |-> 65,
      brokenLinks |-> <<"/old-page", "/missing-image.jpg">>,
      loadTestResults |-> [totalRequests |-> 100, failedRequests |-> 2] ]

C4_One(issues, fragment, severity) ==
    Cardinality({k \in 1..Len(issues) :
        fragment \in Range(issues[k].description)
        /\ issues[k].severity = severity}) = 1

\* C4: for loadTime 4.5, mobileScore 65, failedRequests 2 and two broken links
\* the score is 35, the issue list has exactly four entries (load time high,
\* mobile medium, failed requests medium, broken links high) and the
\* recommendation list has exactly four strings.
C4_Example ==
    testData = C4_Bundle =>
        \A n \in 1..Len(reports) :
            /\ reports[n].overallScore = 35
            /\ Len(reports[n].issues) = 4
            /\ C4_One(reports[n].issues, "Page load time is ", "high")
            /\ C4_One(reports[n].issues, "Mobile responsiveness could be improved", "medium")
            /\ C4_One(reports[n].issues, " requests failed during load testing", "medium")
            /\ C4_One(reports[n].issues, " broken links", "high")
            /\ Len(reports[n].recommendations) = 4
            /\ Cardinality(Range(reports[n].recommendations)) = 4

C4_Witness == testData = C4_Bundle /\ Len(reports) >= 1

C5_L(t) ==
    IF t > 300 THEN 20 ELSE IF t > 200 THEN 10 ELSE IF t > 100 THEN 5 ELSE 0

C5_M(m) ==
    IF m < 80 THEN 15 ELSE IF m < 90 THEN 5 ELSE 0

C5_Expected(r) ==
    LET raw == 100 - C5_L(r.loadTime) - C5_M(r.mobileScore)
                   - 5 * r.failedRequests - 10 * Len(r.brokenLinks)
    IN  IF raw < 0 THEN 0 ELSE IF raw > 100 THEN 100 ELSE raw

\* C5: the overall score is clamp[0,100] of
\* 100 - L - M - 5 * failedRequests - 10 * count(brokenLinks), with L the one
\* worst load-time bracket (20 above 3s, 10 above 2s, 5 above 1s) and M the
\* mobile bracket (15 below 80, 5 below 90).
C5_ScoreFormula ==
    \A n \in 1..Len(reports) : reports[n].overallScore = C5_Expected(reports[n])

\* a bundle in the worst load-time bracket whose score is not clamped
C5_Witness ==
    \E n \in 1..Len(reports) :
        /\ reports[n].loadTime > 300
        /\ reports[n].overallScore = 100 - 20 - C5_M(reports[n].mobileScore)
              - 5 * reports[n].failedRequests - 10 * Len(reports[n].brokenLinks)
        /\ reports[n].overallScore \in 1..79

(***************************************************************************)
(* The streaming orchestrator: POST and runPerformanceTest with its        *)
(* simulated stages, part_000 lines 3-260.  One action runs the code from  *)
(* one resumption (a timer or the fetch settling) to the next await.       *)
(***************************************************************************)
MaxStamp == 1

\* String.prototype.includes
Includes(str, pat) ==
    \E k \in 0..(Len(str) - Len(pat)) : SubSeq(str, k + 1, k + Len(pat)) = pat

\* only the name localhost is taken for a local host
isLocalhostNameOnly(u) == Includes(u, <<"l","o","c","a","l","h","o","s","t">>)

\* part_000 lines 145-146
isLocalhost(u) ==
    \/ Includes(u, <<"l","o","c","a","l","h","o","s","t">>)
    \/ Includes(u, <<"1","2","7",".","0",".","0",".","1">>)
    \/ Includes(u, <<"1","9","2",".","1","6","8",".">>)
    \/ Includes(u, <<"1","0",".">>)

UrlLocal == <<"h","t","t","p",":","/","/","l","o","c","a","l","h","o","s","t",":","3","0","0","0">>

UrlRemote == <<"h","t","t","p","s",":","/","/","a",".","c","o","m">>

UrlInputs == {UrlLocal, UrlRemote}

\* a public address whose text contains "10."
UrlPublicTen == <<"h","t","t","p","s",":","/","/","2","1","0",".","1",".","1",".","1">>

\* no URL
UrlNoUrl == <<"a"," ","b">>

\* testConfig is absent from the request body
Undefined == [undefined |-> TRUE]

ConcurrentInputs == {0, 1, 10}

ConfigInputs == {Undefined} \cup [concurrent : ConcurrentInputs, duration : {30}]

\* the configuration of the page with the link check switched off
ConfigLinkCheckOff ==
    [ loadTest |-> TRUE, linkCheck |-> FALSE, formTest |-> FALSE, mobileTest |-> TRUE,
      browsers |-> <<"chrome", "firefox">>, concurrent |-> 10, duration |-> 30 ]

\* line 4: the request bodies posted without the page
PostBodies ==
    [url : UrlInputs, testConfig : ConfigInputs]
        \cup [url : {UrlPublicTen, UrlNoUrl},
              testConfig : {[concurrent |-> 10, duration |-> 30]}]
        \cup [url : {UrlLocal}, testConfig : {ConfigLinkCheckOff}]

\* (Math.random() * 1 + 0.3).toFixed(2), line 151: "0.30" .. "1.30"
LocalLoadTimes == {30, 101, 130}

\* Date.now() differences in milliseconds under the 10 s timeout, line 169
FetchElapsed == {4, 2345, 9996}

\* (Math.random() * 3 + 1).toFixed(2), line 182: "1.00" .. "4.00"
FallbackLoadTimes == {100, 301, 400}

\* floor(Math.random() * 30 + 70), line 227
MobileScores == 70..99

\* line 211: a prefix of at most two of the possible links
BrokenLinkLists == {SubSeq(possibleBrokenLinks, 1, n) : n \in 0..2}

\* floor(Math.random() * 5), line 256
FailedCounts == 0..4

\* (Math.random() * 2 + 0.5).toFixed(2) and (Math.random() * 5 + 2).toFixed(2)
AvgResponseTimes == {50, 250}

MaxResponseTimes == {200, 700}

\* (ms / 1000).toFixed(2), in hundredths
ToFixed2(ms) == RoundDiv(ms, 10)

Digits2(n) == IF n < 10 THEN "0" \o ToString(n) ELSE ToString(n)

\* the text of a toFixed(2) value held in hundredths
Fixed2Text(h) == ToString(h \div 100) \o "." \o Digits2(h % 100)

\* `${Math.round(((total - failed) / total) * 100)}%`, line 104
SuccessRateText(total, failed) ==
    IF total = 0
    THEN (IF failed = 0 THEN "NaN%" ELSE "-Infinity%")
    ELSE ToString(RoundDiv((total - failed) * 100, total)) \o "%"

\* the percentage still to do instead of the percentage done
ProgressMsgRemaining(p, status, metrics) ==
    [progress |-> 100 - p, status |-> status, metrics |-> metrics]

ProgressMsg(p, status, metrics) ==
    [progress |-> p, status |-> status, metrics |-> metrics]

MetricsMsg(metrics) == [metrics |-> metrics]

FinalMsg(report) ==
    [progress |-> 100, status |-> "Test completed!", results |-> report]

\* error instanceof Error ? error.message : "Unknown error"
FailureMsg(message) == [error |-> "Test failed", message |-> message]

LoadTimeMetrics(text, n) == [currentLoadTime |-> text, requestsProcessed |-> n]

\* lines 53-93: the stages runPerformanceTest calls
AllStages == {"load-time", "link-integrity", "mobile", "load-test"}

Running ==
    {"init", "lt_local", "lt_fetch", "lt_done", "links", "links_done",
     "mobile", "mobile_done", "load", "load_done"}

(***************************************************************************)
(* The page that submits a run: isValidUrl, formatUrl, getTestConfig and   *)
(* the head of the client handler runPerformanceTest, part_000 lines       *)
(* 396-435, 453-470 and 509-517.  Text is a sequence of one-character      *)
(* strings; the texts of the model are lower case, without leading or      *)
(* trailing white space, and their numeric hosts are dotted decimal IPv4   *)
(* addresses.                                                              *)
(***************************************************************************)
Digit == {"0","1","2","3","4","5","6","7","8","9"}

Alpha == {"a","b","c","d","e","f","g","h","i","j","k","l","m",
          "n","o","p","q","r","s","t","u","v","w","x","y","z"}

\* String.prototype.startsWith
StartsWith(str, pat) ==
    Len(str) >= Len(pat) /\ SubSeq(str, 1, Len(pat)) = pat

\* the length of the run of digits that starts at position k
RECURSIVE DigitsFrom(_, _)
DigitsFrom(str, k) ==
    IF k <= Len(str) /\ str[k] \in Digit THEN 1 + DigitsFrom(str, k + 1) ELSE 0

\* Matching a regular expression from the left: the position after the match
\* of one more token from position k, 0 when there is no match so far.
\* a literal
Lit(str, k, pat) ==
    IF k # 0 /\ k + Len(pat) - 1 <= Len(str) /\ SubSeq(str, k, k + Len(pat) - 1) = pat
    THEN k + Len(pat) ELSE 0

\* \d+ (what follows it in the patterns is no digit, so the longest run)
Num(str, k) ==
    IF k # 0 /\ DigitsFrom(str, k) > 0 THEN k + DigitsFrom(str, k) ELSE 0

\* lines 403-406 and 423-426, up to the end anchor: the positions after a
\* match of each of the four patterns
localhostPatterns(str) ==
    { Num(str, Lit(str, 1, <<"l","o","c","a","l","h","o","s","t",":">>)),
      Num(str, Lit(str, 1, <<"1","2","7",".","0",".","0",".","1",":">>)),
      Num(str, Lit(str, Num(str, Lit(str, Num(str, Lit(str, 1, <<"1","9","2",".","1","6","8",".">>)), <<".">>)), <<":">>)),
      Num(str, Lit(str, Num(str, Lit(str, Num(str, Lit(str, Num(str,
          Lit(str, 1, <<"1","0",".">>)), <<".">>)), <<".">>)), <<":">>)) }

\* the value of a run of digits
RECURSIVE ParseInt(_)
ParseInt(str) ==
    IF str = <<>> THEN 0
    ELSE 10 * ParseInt(SubSeq(str, 1, Len(str) - 1))
           + (CHOOSE d \in 0..9 : ToString(d) = str[Len(str)])

\* the position of the first character of str, from k on, that is in S;
\* Len(str) + 1 when there is none
RECURSIVE FirstIn(_, _, _)
FirstIn(str, k, S) ==
    IF k > Len(str) \/ str[k] \in S THEN k ELSE FirstIn(str, k + 1, S)

\* the position of the last ":" of str, 0 when there is none
RECURSIVE LastColon(_, _)
LastColon(str, k) ==
    IF k = 0 \/ str[k] = ":" THEN k ELSE LastColon(str, k - 1)

\* the position of the first character of str, from k on, that is no slash
RECURSIVE SkipSlashes(_, _)
SkipSlashes(str, k) ==
    IF k <= Len(str) /\ str[k] \in {"/", "\\"} THEN SkipSlashes(str, k + 1) ELSE k

ForbiddenHostChars ==
    {" ", "#", "/", ":", "<", ">", "?", "@", "[", "\\", "]", "^", "|", "%"}

\* new URL(urlString) without a base, line 398: the protocol of the parsed
\* URL, or <<>> when the constructor throws.  A string without a scheme
\* throws; an http or https URL throws on an empty host, a forbidden
\* character in the host, or a port that is no number up to 65535.
NewURL(str) ==
    LET colon == FirstIn(str, 1, {":"})
        scheme == SubSeq(str, 1, colon - 1)
        hasScheme == /\ colon <= Len(str) /\ colon > 1
                     /\ str[1] \in Alpha
                     /\ \A k \in 1..(colon - 1) :
                            str[k] \in Alpha \cup Digit \cup {"+", "-", "."}
        start == SkipSlashes(str, colon + 1)
        stop == FirstIn(str, start, {"/", "\\", "?", "#"})
        authority == SubSeq(str, start, stop - 1)
        sep == LastColon(authority, Len(authority))
        host == IF sep = 0 THEN authority ELSE SubSeq(authority, 1, sep - 1)
        port == IF sep = 0 THEN <<>> ELSE SubSeq(authority, sep + 1, Len(authority))
    IN  IF ~hasScheme THEN <<>>
        ELSE IF scheme \notin {<<"h","t","t","p">>, <<"h","t","t","p","s">>} THEN scheme \o <<":">>
        ELSE IF /\ host # <<>>
                /\ \A k \in 1..Len(host) : host[k] \notin ForbiddenHostChars
                /\ \A k \in 1..Len(port) : port[k] \in Digit
                /\ Len(port) <= 5 /\ ParseInt(port) <= 65535
             THEN scheme \o <<":">>
             ELSE <<>>

\* lines 396-411
isValidUrl(urlString) ==
    IF NewURL(urlString) # <<>>
    THEN NewURL(urlString) \in {<<"h","t","t","p",":">>, <<"h","t","t","p","s",":">>}
    ELSE Len(urlString) + 1 \in localhostPatterns(urlString)

\* lines 413-435
formatUrl(inputUrl) ==
    IF inputUrl = <<>> THEN <<>>
    ELSE IF StartsWith(inputUrl, <<"h","t","t","p",":","/","/">>) \/ StartsWith(inputUrl, <<"h","t","t","p","s",":","/","/">>)
         THEN inputUrl
    ELSE IF localhostPatterns(inputUrl) # {0}
         THEN <<"h","t","t","p",":","/","/">> \o inputUrl
    ELSE <<"h","t","t","p","s",":","/","/">> \o inputUrl

\* lines 509-517
getTestConfig ==
    [ loadTest |-> TRUE, linkCheck |-> TRUE, formTest |-> FALSE, mobileTest |-> TRUE,
      browsers |-> <<"chrome", "firefox">>, concurrent |-> 10, duration |-> 30 ]

\* what the user has typed into the URL field
TypedInputs ==
    { <<"l","o","c","a","l","h","o","s","t",":","3","0","0","0">>,
      <<"1","2","7",".","0",".","0",".","1",":","8","0">>,
      <<"1","9","2",".","1","6","8",".","1",".","5",":","8","0">>,
      <<"1","0",".","0",".","0",".","1",":","8","0">>,
      <<"a",".","c","o","m">>,
      <<"a"," ","b">>,
      <<"l","o","c","a","l","h","o","s","t",":","9","9","9","9","9">>,
      <<>> }

\* lines 453-470: the client handler up to the request it posts
Submit ==
    /\ cpc = "typed"
    /\ LET formattedUrl == formatUrl(input)
       IN  IF ~isValidUrl(formattedUrl)
           THEN /\ cpc' = "returned"
                /\ UNCHANGED <<url, testConfig, pc, progress, currentTest, testResults>>
           ELSE /\ cpc' = "fetching"
                /\ progress' = 0
                /\ currentTest' = "Initializing test..."
                /\ testResults' = <<>>
                /\ url' = formattedUrl
                /\ testConfig' = getTestConfig
                /\ pc' = "posted"
    /\ UNCHANGED <<notRead, readTo, splits, realtimeMetrics, applied,
                   input, head, loopI, msgs, closed, cancelled, thrown, started,
                   completed, loadTime, brokenLinks, mobileScore, loadTestResults>>

\* the request without the abort signal
HeadRequestUnbounded(u) ==
    [url |-> u, method |-> "HEAD", timeout |-> 0, outcome |-> "pending"]

\* lines 164-167: fetch(url, { method: "HEAD", signal: AbortSignal.timeout(10000) })
HeadRequest(u) ==
    [url |-> u, method |-> "HEAD", timeout |-> 10000, outcome |-> "pending"]

\* the request in flight settles: it is answered, or it fails or times out
Settled(requests, outcome) ==
    [requests EXCEPT ![Len(requests)].outcome = outcome]

\* lines 3-41: POST builds the stream, start() calls runPerformanceTest, which
\* runs to its first await
Start ==
    /\ pc = "posted"
    /\ msgs' = Append(msgs, ProgressMsg(0, "Initializing performance test...",
                                        LoadTimeMetrics("0.0s", 0)))
    /\ pc' = "init"
    /\ UNCHANGED <<notOrch, input, cpc, head, url, testConfig, loopI, closed, cancelled, thrown, started,
                   completed, loadTime, brokenLinks, mobileScore, loadTestResults>>

\* lines 43-53 and 142-150 / 164
BeginLoadTime ==
    /\ pc = "init" /\ ~cancelled
    /\ msgs' = Append(msgs, ProgressMsg(20, "Measuring page load time...",
                                        LoadTimeMetrics("Loading...", 1)))
    /\ started' = started \cup {"load-time"}
    /\ pc' = IF isLocalhost(url) THEN "lt_local" ELSE "lt_fetch"
    /\ head' = IF isLocalhost(url) THEN head ELSE Append(head, HeadRequest(url))
    /\ UNCHANGED <<notOrch, input, cpc, url, testConfig, loopI, closed, cancelled, thrown, completed,
                   loadTime, brokenLinks, mobileScore, loadTestResults>>

LoadTimeReturn(t) ==
    /\ loadTime' = t
    /\ msgs' = Append(msgs, MetricsMsg(LoadTimeMetrics(Fixed2Text(t) \o "s", 3)))
    /\ completed' = completed \cup {"load-time"}
    /\ pc' = "lt_done"
    /\ UNCHANGED <<notOrch, input, cpc, url, testConfig, loopI, closed, cancelled, thrown, started,
                   brokenLinks, mobileScore, loadTestResults>>

\* lines 150-161
LoadTimeLocal ==
    /\ pc = "lt_local" /\ ~cancelled
    /\ \E t \in LocalLoadTimes : LoadTimeReturn(t)
    /\ UNCHANGED head

\* lines 164-179: the HEAD request answered
LoadTimeFetched ==
    /\ pc = "lt_fetch" /\ ~cancelled
    /\ \E ms \in FetchElapsed : LoadTimeReturn(ToFixed2(ms))
    /\ head' = Settled(head, "ok")

\* lines 181-193: the HEAD request failed or timed out
LoadTimeFallback ==
    /\ pc = "lt_fetch" /\ ~cancelled
    /\ \E t \in FallbackLoadTimes : LoadTimeReturn(t)
    /\ head' = Settled(head, "failed")

\* lines 54-66
BeginLinkCheck ==
    /\ pc = "lt_done" /\ ~cancelled
    /\ msgs' = Append(msgs, ProgressMsg(40, "Checking for broken links...",
                         LoadTimeMetrics(Fixed2Text(loadTime) \o "s", 5)))
    /\ started' = started \cup {"link-integrity"}
    /\ loopI' = 0
    /\ pc' = "links"
    /\ UNCHANGED <<notOrch, input, cpc, head, url, testConfig, closed, cancelled, thrown, completed,
                   loadTime, brokenLinks, mobileScore, loadTestResults>>

\* lines 200-211: one round of the loop; the third returns the links
LinkCheckStep ==
    /\ pc = "links" /\ ~cancelled
    /\ msgs' = Append(msgs, MetricsMsg([requestsProcessed |-> 5 + loopI * 2]))
    /\ IF loopI + 1 < 3
       THEN /\ loopI' = loopI + 1
            /\ UNCHANGED <<pc, brokenLinks, completed>>
       ELSE /\ \E links \in BrokenLinkLists : brokenLinks' = links
            /\ completed' = completed \cup {"link-integrity"}
            /\ pc' = "links_done"
            /\ loopI' = 0
    /\ UNCHANGED <<notOrch, input, cpc, head, url, testConfig, closed, cancelled, thrown, started,
                   loadTime, mobileScore, loadTestResults>>

\* lines 67-79
BeginMobile ==
    /\ pc = "links_done" /\ ~cancelled
    /\ msgs' = Append(msgs, ProgressMsg(60, "Testing mobile responsiveness...",
                         LoadTimeMetrics(Fixed2Text(loadTime) \o "s", 12)))
    /\ started' = started \cup {"mobile"}
    /\ loopI' = 0
    /\ pc' = "mobile"
    /\ UNCHANGED <<notOrch, input, cpc, head, url, testConfig, closed, cancelled, thrown, completed,
                   loadTime, brokenLinks, mobileScore, loadTestResults>>

\* lines 216-227
MobileStep ==
    /\ pc = "mobile" /\ ~cancelled
    /\ msgs' = Append(msgs, MetricsMsg([requestsProcessed |-> 12 + loopI * 2]))
    /\ IF loopI + 1 < 4
       THEN /\ loopI' = loopI + 1
            /\ UNCHANGED <<pc, mobileScore, completed>>
       ELSE /\ \E score \in MobileScores : mobileScore' = score
            /\ completed' = completed \cup {"mobile"}
            /\ pc' = "mobile_done"
            /\ loopI' = 0
    /\ UNCHANGED <<notOrch, input, cpc, head, url, testConfig, closed, cancelled, thrown, started,
                   loadTime, brokenLinks, loadTestResults>>

\* an empty catch block
CatchSilently(q, message) == q

\* lines 127-138: the catch block enqueues the failure, finally closes
CatchAndClose(q, message) == Append(q, FailureMsg(message))

\* lines 80-92 (and 127-138 when reading testConfig.concurrent throws)
BeginLoadTest ==
    /\ pc = "mobile_done" /\ ~cancelled
    /\ LET q == Append(msgs, ProgressMsg(80, "Running concurrent user simulation...",
                         LoadTimeMetrics(Fixed2Text(loadTime) \o "s", 25)))
       IN  IF testConfig = Undefined
           THEN /\ msgs' = CatchAndClose(q,
                              "Cannot read properties of undefined (reading 'concurrent')")
                /\ thrown' = TRUE
                /\ closed' = TRUE
                /\ pc' = "done"
                /\ UNCHANGED <<started, loopI>>
           ELSE /\ msgs' = q
                /\ started' = started \cup {"load-test"}
                /\ loopI' = 0
                /\ pc' = "load"
                /\ UNCHANGED <<thrown, closed>>
    /\ UNCHANGED <<notOrch, input, cpc, head, url, testConfig, cancelled, completed, loadTime, brokenLinks,
                   mobileScore, loadTestResults>>

\* lines 254-259
simulateLoadTestResult(concurrent, failed, avg, max) ==
    [ totalRequests   |-> concurrent * 10,
      failedRequests  |-> failed,
      avgResponseTime |-> avg,
      maxResponseTime |-> max ]

\* lines 236-259
LoadTestStep ==
    /\ pc = "load" /\ ~cancelled
    /\ LET concurrent == testConfig.concurrent
           totalRequests == concurrent * 10
       IN  /\ msgs' = Append(msgs, MetricsMsg(
                        [ requestsProcessed |-> ((loopI + 1) * totalRequests) \div 10,
                          concurrent |-> (concurrent * (loopI + 1)) \div 10 ]))
           /\ IF loopI + 1 < 10
              THEN /\ loopI' = loopI + 1
                   /\ UNCHANGED <<pc, loadTestResults, completed>>
              ELSE /\ \E failed \in FailedCounts, avg \in AvgResponseTimes,
                         max \in MaxResponseTimes :
                         loadTestResults' =
                             simulateLoadTestResult(concurrent, failed, avg, max)
                   /\ completed' = completed \cup {"load-test"}
                   /\ pc' = "load_done"
                   /\ loopI' = 0
    /\ UNCHANGED <<notOrch, input, cpc, head, url, testConfig, closed, cancelled, thrown, started,
                   loadTime, brokenLinks, mobileScore>>

\* the report enqueued before the "Generating report..." message
FinishMsgsReportFirst(q, report) ==
    Append(Append(q, FinalMsg(report)),
        ProgressMsg(100, "Generating report...",
            [ currentLoadTime |-> Fixed2Text(loadTime) \o "s",
              requestsProcessed |-> loadTestResults.totalRequests,
              successRate |-> SuccessRateText(loadTestResults.totalRequests,
                                              loadTestResults.failedRequests),
              concurrent |-> testConfig.concurrent ]))

\* the failure message enqueued after the report
FinishMsgsAndFailure(q, report) ==
    Append(FinishMsgsReportFirst(q, report), FailureMsg("Unknown error"))

\* lines 95-126: the two messages of the report
FinishMsgs(q, report) ==
    Append(Append(q,
        ProgressMsg(100, "Generating report...",
            [ currentLoadTime |-> Fixed2Text(loadTime) \o "s",
              requestsProcessed |-> loadTestResults.totalRequests,
              successRate |-> SuccessRateText(loadTestResults.totalRequests,
                                              loadTestResults.failedRequests),
              concurrent |-> testConfig.concurrent ])),
        FinalMsg(report))

\* lines 93-126 and 136-138
Finish ==
    /\ pc = "load_done" /\ ~cancelled
    /\ \E at \in 0..MaxStamp :
          msgs' = FinishMsgs(msgs, generateTestResults(url,
                      [ loadTime |-> loadTime, brokenLinks |-> brokenLinks,
                        mobileScore |-> mobileScore,
                        loadTestResults |-> loadTestResults ], at))
    /\ closed' = TRUE
    /\ pc' = "done"
    /\ UNCHANGED <<notOrch, input, cpc, head, url, testConfig, loopI, cancelled, thrown, started, completed,
                   loadTime, brokenLinks, mobileScore, loadTestResults>>

\* the consumer disconnects: the stream is cancelled, POST registers no
\* cancel callback (lines 8-12), the run is not told
Cancel ==
    /\ pc \in Running /\ ~cancelled
    /\ cancelled' = TRUE
    /\ UNCHANGED <<notOrch, input, cpc, head, url, testConfig, pc, loopI, msgs, closed, thrown, started,
                   completed, loadTime, brokenLinks, mobileScore, loadTestResults>>

\* on a cancelled stream the next controller.enqueue throws; so does the
\* enqueue of the catch block and the close of finally: nothing is emitted
\* and the promise of runPerformanceTest rejects
EnqueueThrows ==
    /\ pc \in Running /\ cancelled
    /\ pc' = "rejected"
    /\ IF pc = "lt_fetch"
       THEN \E outcome \in {"ok", "failed"} : head' = Settled(head, outcome)
       ELSE UNCHANGED head
    /\ UNCHANGED <<notOrch, input, cpc, url, testConfig, loopI, msgs, closed, cancelled, thrown, started,
                   completed, loadTime, brokenLinks, mobileScore, loadTestResults>>

(***************************************************************************)
(* The browser-driven load generator: runLoadTest and singleUserLoadTest,  *)
(* part_001 lines 331-399.  A nullable number is a sequence of at most one *)
(* element; a quotient the code leaves as a float is [num, den].           *)
(***************************************************************************)
MaxDuration == 2

MaxBatchSeconds == 2

LoadConcurrents == {0, 1, 2}

OptionsInputs == [concurrent : LoadConcurrents, duration : 0..MaxDuration]

Pending == [status |-> "pending"]

\* lines 373-399: how the promise of one virtual user settles.  It fulfils
\* with the measurement (lines 385-389) or with the error result of the
\* catch block (lines 391-394); it rejects when the browser or the page
\* cannot be acquired (lines 374-375) or closed (lines 396-397).
singleUserLoadTest ==
    { [status |-> "fulfilled",
       value |-> [loadTime |-> 800, statusCode |-> 200, success |-> TRUE]],
      [status |-> "fulfilled",
       value |-> [loadTime |-> 1200, statusCode |-> 200, success |-> TRUE]],
      [status |-> "fulfilled",
       value |-> [loadTime |-> 1200, statusCode |-> 404, success |-> FALSE]],
      [status |-> "fulfilled",
       value |-> [error |-> "Navigation timeout of 30000 ms exceeded",
                  success |-> FALSE]],
      [status |-> "rejected",
       reason |-> [message |-> "Failed to launch the browser process"]] }

\* the reason of a rejected promise recorded as it is
RecordedReason(settled) ==
    IF settled.status = "fulfilled" THEN settled.value ELSE settled.reason

\* lines 347-349
Recorded(settled) ==
    IF settled.status = "fulfilled" THEN settled.value
    ELSE [error |-> settled.reason.message]

\* only the fulfilled promises are recorded
RecordBatchFulfilledOnly(res, settled) ==
    LET IsFulfilled(p) == p.status = "fulfilled"
        kept == SelectSeq(settled, IsFulfilled)
    IN  res \o [k \in 1..Len(kept) |-> Recorded(kept[k])]

\* lines 346-350: results.push(...batchResults.map(...))
RecordBatch(res, settled) ==
    res \o [k \in 1..Len(settled) |-> Recorded(settled[k])]

\* a truthy r.error
HasError(r) == Has(r, "error") /\ r.error # ""

\* line 357
Successful(res) == LET Ok(r) == ~HasError(r) IN SelectSeq(res, Ok)

\* line 358
Failed(res) == SelectSeq(res, HasError)

\* line 359: successful.map((r) => r.loadTime).filter((t) => t)
LoadTimesOf(succ) ==
    LET Timed(r) == Has(r, "loadTime") /\ r.loadTime # 0
        timed == SelectSeq(succ, Timed)
    IN  [k \in 1..Len(timed) |-> timed[k].loadTime]

\* the average without the guard on an empty list
AverageUnguarded(loadTimes) ==
    << [num |-> SeqSum(loadTimes), den |-> Len(loadTimes)] >>

\* line 366
Average(loadTimes) ==
    IF Len(loadTimes) > 0
    THEN << [num |-> SeqSum(loadTimes), den |-> Len(loadTimes)] >>
    ELSE <<>>

\* lines 356-370
Summarize(res) ==
    LET successful == Successful(res)
        failed == Failed(res)
        loadTimes == LoadTimesOf(successful)
    IN  [ totalRequests      |-> Len(res),
          successfulRequests |-> Len(successful),
          failedRequests     |-> Len(failed),
          successRate        |-> [num |-> Len(successful), den |-> Len(res)],
          averageLoadTime    |-> Average(loadTimes),
          minLoadTime        |-> IF Len(loadTimes) > 0 THEN <<SeqMin(loadTimes)>> ELSE <<>>,
          maxLoadTime        |-> IF Len(loadTimes) > 0 THEN <<SeqMax(loadTimes)>> ELSE <<>>,
          errors             |-> [k \in 1..Len(failed) |-> failed[k].error] ]

\* line 338 and what follows it: at `seconds` since startTime the loop either
\* launches the next batch (lines 339-345) or ends and the summary is
\* returned (lines 356-370)
LoopTest(seconds, res) ==
    IF seconds < options.duration
    THEN /\ batch' = [k \in 1..options.concurrent |-> Pending]
         /\ lpc' = "batch"
         /\ summary' = summary
    ELSE /\ batch' = <<>>
         /\ lpc' = "done"
         /\ summary' = Summarize(res)

\* lines 331-345: the call, up to the first await
RunLoadTest ==
    /\ lpc = "called"
    /\ elapsed' = 0
    /\ results' = <<>>
    /\ LoopTest(0, <<>>)
    /\ UNCHANGED <<notLoad, options, batches>>

\* one promise of the batch settles
Settle ==
    /\ lpc = "batch"
    /\ \E k \in 1..Len(batch), outcome \in singleUserLoadTest :
          /\ batch[k] = Pending
          /\ batch' = [batch EXCEPT ![k] = outcome]
    /\ UNCHANGED <<notLoad, options, lpc, elapsed, results, batches, summary>>

\* the batch is over as soon as one of its promises has settled; the others
\* stay in flight
BatchSettledAny ==
    /\ lpc = "batch"
    /\ \E k \in 1..Len(batch) : batch[k] # Pending
    /\ LET IsSettled(p) == p # Pending
           IsPending(p) == p = Pending
       IN  /\ results' = RecordBatch(results, SelectSeq(batch, IsSettled))
           /\ batch' = SelectSeq(batch, IsPending)
    /\ batches' = batches + 1
    /\ lpc' = "pause"
    /\ UNCHANGED <<notLoad, options, elapsed, summary>>

\* lines 345-353: Promise.allSettled resolves once every promise has settled
BatchSettled ==
    /\ lpc = "batch"
    /\ \A k \in 1..Len(batch) : batch[k] # Pending
    /\ results' = RecordBatch(results, batch)
    /\ batches' = batches + 1
    /\ batch' = <<>>
    /\ lpc' = "pause"
    /\ UNCHANGED <<notLoad, options, elapsed, summary>>

\* line 353 over, back to line 338: the batch and its pause took d seconds,
\* the pause alone one second
PauseOver ==
    /\ lpc = "pause"
    /\ \E d \in 1..MaxBatchSeconds :
          /\ elapsed' = elapsed + d
          /\ LoopTest(elapsed + d, results)
    /\ UNCHANGED <<notLoad, options, results, batches>>

(***************************************************************************)
(* One navigation operation of PuppeteerPerformanceTester:                 *)
(* singleUserLoadTest, measurePageMetrics, checkAccessibility or           *)
(* testFormInteractions, part_001 lines 16-33, 35-142, 181-252, 254-329    *)
(* and 373-399.  The four acquire and release their handles the same way:  *)
(* setupBrowser and newPage before the try block, page.close and           *)
(* browser.close in its finally block.                                     *)
(***************************************************************************)
MaxBrowsers == 1

NavOperations ==
    {"singleUserLoadTest", "measurePageMetrics", "checkAccessibility", "testFormInteractions"}

\* what the try block returns (the fields the model reads)
NavValues(operation) ==
    IF operation = "singleUserLoadTest"
    THEN {o.value : o \in {x \in singleUserLoadTest :
                               x.status = "fulfilled" /\ ~Has(x.value, "error")}}
    ELSE IF operation = "measurePageMetrics"
    THEN {[statusCode |-> 200, totalLoadTime |-> 1200, mobile |-> FALSE]}
    ELSE IF operation = "checkAccessibility"
    THEN {[issues |-> <<>>], [issues |-> <<[type |-> "missing_h1", severity |-> "medium"]>>]}
    ELSE {[forms |-> <<>>]}

\* what the catch block returns
NavErrors(operation) ==
    LET message == "Navigation timeout of 30000 ms exceeded"
    IN  IF operation = "singleUserLoadTest"
        THEN {[error |-> message, success |-> FALSE]}
        ELSE IF operation = "measurePageMetrics"
        THEN {[error |-> message, mobile |-> FALSE]}
        ELSE {[error |-> message]}

Rejected(message) == [status |-> "rejected", reason |-> [message |-> message]]

\* lines 16-33: puppeteer.launch resolves, the handle is pushed; or it rejects
NavLaunch ==
    /\ npc = "called"
    /\ \/ /\ browserOpen' = TRUE
          /\ browsers' = browsers + 1
          /\ npc' = "launched"
          /\ UNCHANGED promise
       \/ /\ promise' = Rejected("Failed to launch the browser process")
          /\ npc' = "finished"
          /\ UNCHANGED <<browserOpen, browsers>>
    /\ UNCHANGED <<notNav, op, pageOpen>>

\* browser.newPage(), before the try block (lines 37, 183, 256, 375)
NavNewPage ==
    /\ npc = "launched"
    /\ \/ /\ pageOpen' = TRUE
          /\ npc' = "navigating"
          /\ UNCHANGED promise
       \/ /\ promise' = Rejected("Protocol error (Target.createTarget): Target closed")
          /\ npc' = "finished"
          /\ UNCHANGED pageOpen
    /\ UNCHANGED <<notNav, op, browsers, browserOpen>>

\* the try block returns, or it throws and the catch block returns
NavBody ==
    /\ npc = "navigating"
    /\ \E value \in NavValues(op) \cup NavErrors(op) :
          promise' = [status |-> "returning", value |-> value]
    /\ npc' = "closing_page"
    /\ UNCHANGED <<notNav, op, browsers, browserOpen, pageOpen>>

\* finally: await page.close(); when it throws, browser.close() is skipped
\* and the promise rejects
NavClosePage ==
    /\ npc = "closing_page"
    /\ \/ /\ pageOpen' = FALSE
          /\ npc' = "closing_browser"
          /\ UNCHANGED promise
       \/ /\ promise' = Rejected("Protocol error: Connection closed")
          /\ npc' = "finished"
          /\ UNCHANGED pageOpen
    /\ UNCHANGED <<notNav, op, browsers, browserOpen>>

\* finally: await browser.close(), then the value is returned
NavCloseBrowser ==
    /\ npc = "closing_browser"
    /\ \/ /\ browserOpen' = FALSE
          /\ promise' = [status |-> "fulfilled", value |-> promise.value]
       \/ /\ promise' = Rejected("Protocol error: Connection closed")
          /\ UNCHANGED browserOpen
    /\ npc' = "finished"
    /\ UNCHANGED <<notNav, op, browsers, pageOpen>>

(***************************************************************************)
(* runComprehensiveTest, part_001 lines 401-460: the probes are awaited    *)
(* one after the other, each under its flag of the configuration; the      *)
(* score is computed from what they returned.                              *)
(***************************************************************************)
\* lines 402-410
defaultConfig ==
    [ desktop |-> TRUE, mobile |-> TRUE, accessibility |-> TRUE, formTesting |-> TRUE,
      loadTesting |-> TRUE, concurrent |-> 10, duration |-> 30 ]

\* line 412: { ...defaultConfig, ...config }
Spread(defaults, given) ==
    [k \in DOMAIN defaults \cup DOMAIN given |->
        IF k \in DOMAIN given THEN given[k] ELSE defaults[k]]

\* lines 422-453: the keys of results, in the order the code sets them
ComprehensiveStages == <<"desktop", "mobile", "accessibility", "forms", "loadTest">>

\* the flag of testConfig that each of the blocks tests
StageFlag ==
    [ desktop |-> "desktop", mobile |-> "mobile", accessibility |-> "accessibility",
      forms |-> "formTesting", loadTest |-> "loadTesting" ]

\* the config arguments: every set of flags switched off, the others left out
ComprehensiveConfigs ==
    {[k \in off |-> FALSE] :
        off \in SUBSET {"desktop", "mobile", "accessibility", "formTesting", "loadTesting"}}

NavigationTimeout == "Navigation timeout of 30000 ms exceeded"

\* what the try block of the probe of a stage returns (lines 112-131, 245,
\* 322, 361-370)
ProbeValues(name) ==
    IF name = "desktop"
    THEN { [totalLoadTime |-> 900, webVitals |-> <<>>],
           [totalLoadTime |-> 6000, webVitals |-> [lcp |-> 2600, fid |-> 150, cls |-> 250]] }
    ELSE IF name = "mobile"
    THEN { [totalLoadTime |-> 1000], [totalLoadTime |-> 5000] }
    ELSE IF name = "accessibility"
    THEN { [issues |-> <<>>],
           [issues |-> << [type |-> "missing_alt_text", severity |-> "medium"],
                          [type |-> "unlabeled_inputs", severity |-> "high"],
                          [type |-> "missing_title", severity |-> "high"],
                          [type |-> "missing_h1", severity |-> "medium"] >>] }
    ELSE IF name = "forms"
    THEN { [forms |-> <<>>] }
    ELSE { Summarize(res) :
             res \in { <<>>,
                       << [loadTime |-> 800, statusCode |-> 200, success |-> TRUE] >>,
                       << [error |-> NavigationTimeout, success |-> FALSE],
                          [error |-> NavigationTimeout, success |-> FALSE] >> } }

\* the navigation failure is thrown to the caller
NavigationFailedThrows(name) ==
    [status |-> "rejected", reason |-> [message |-> NavigationTimeout]]

\* lines 132-137, 246-247, 323-324: the catch block of the probe returns the
\* error as a result
NavigationFailed(name) ==
    [status |-> "fulfilled", value |-> [error |-> NavigationTimeout]]

\* how the promise of the probe of a stage settles: with its value, with the
\* error result of its catch block, or rejected when the browser or the page
\* cannot be acquired before the try block or released in the finally block;
\* runLoadTest absorbs what its navigations do and resolves with the summary
ProbeOutcomes(name) ==
    {[status |-> "fulfilled", value |-> v] : v \in ProbeValues(name)}
        \cup (IF name = "loadTest" THEN {}
              ELSE {NavigationFailed(name),
                    Rejected("Failed to launch the browser process")})

\* lines 423-459 from the block after stage k on: the next block whose flag
\* is set starts its probe; after the last the score is set and results
\* returned
Continue(k, res) ==
    LET rest == {j \in (k + 1)..Len(ComprehensiveStages) :
                    ctTestConfig'[StageFlag[ComprehensiveStages[j]]]}
    IN  IF rest = {}
        THEN /\ ctStage' = 0
             /\ ctpc' = "returned"
             /\ ctStarted' = ctStarted
             /\ ctResults' = With(res, "performanceScore", calculateOverallScore(res))
        ELSE LET j == CHOOSE x \in rest : \A y \in rest : x <= y
             IN  /\ ctStage' = j
                 /\ ctpc' = "awaiting"
                 /\ ctStarted' = Append(ctStarted, ComprehensiveStages[j])
                 /\ ctResults' = res

\* lines 401-420: the call, up to the first await
ComprehensiveCall ==
    /\ ctpc = "called"
    /\ ctTestConfig' = Spread(defaultConfig, ctConfig)
    /\ Continue(0, [url |-> "https://example.com", config |-> ctTestConfig'])
    /\ UNCHANGED <<notComp, ctConfig, ctCompleted, ctError>>

\* the probe awaited resolves: results.<stage> = its value
ProbeResolves ==
    /\ ctpc = "awaiting"
    /\ ctTestConfig' = ctTestConfig
    /\ \E settled \in ProbeOutcomes(ComprehensiveStages[ctStage]) :
          /\ settled.status = "fulfilled"
          /\ Continue(ctStage, With(ctResults, ComprehensiveStages[ctStage], settled.value))
    /\ ctCompleted' = ctCompleted \cup {ComprehensiveStages[ctStage]}
    /\ UNCHANGED <<notComp, ctConfig, ctError>>

\* the probe awaited rejects: runComprehensiveTest has no try block, its
\* promise rejects with the same error
ProbeRejects ==
    /\ ctpc = "awaiting"
    /\ \E settled \in ProbeOutcomes(ComprehensiveStages[ctStage]) :
          /\ settled.status = "rejected"
          /\ ctError' = settled.reason.message
    /\ ctpc' = "rejected"
    /\ UNCHANGED <<notComp, ctConfig, ctTestConfig, ctResults, ctStage, ctStarted, ctCompleted>>

(***************************************************************************)
(* The page reading the response stream: the encoding of a message,        *)
(* part_000 lines 31-39, and the reader loop of the client handler, lines  *)
(* 474-506.  The response body is the text of the messages enqueued, each  *)
(* followed by a newline; the text of one object is held in two parts, so  *)
(* that a read can end inside it.                                          *)
(***************************************************************************)
MaxSplits == 1

\* encoder.encode(JSON.stringify(data) + "\n")
Encode(data) ==
    << [part |-> "head", of |-> data], [part |-> "tail", of |-> data],
       [part |-> "newline"] >>

\* the bytes enqueued on the controller, in the order enqueued
Body(q) ==
    [k \in 1..(3 * Len(q)) |-> Encode(q[((k - 1) \div 3) + 1])[((k - 1) % 3) + 1]]

\* chunk.split("\n")
RECURSIVE Split(_)
Split(chunk) ==
    LET newlines == {k \in 1..Len(chunk) : chunk[k].part = "newline"}
    IN  IF newlines = {} THEN <<chunk>>
        ELSE LET k == CHOOSE x \in newlines : \A y \in newlines : x <= y
             IN  <<SubSeq(chunk, 1, k - 1)>> \o Split(SubSeq(chunk, k + 1, Len(chunk)))

\* the lines of the chunk taken last first
LinesOfReversed(chunk) ==
    LET NotBlank(line) == line # <<>>
        kept == SelectSeq(Split(chunk), NotBlank)
    IN  [k \in 1..Len(kept) |-> kept[Len(kept) + 1 - k]]

\* line 482: chunk.split("\n").filter((line) => line.trim())
LinesOf(chunk) ==
    LET NotBlank(line) == line # <<>>
    IN  SelectSeq(Split(chunk), NotBlank)

\* JSON.parse(line) returns for the whole text of one object and throws for
\* a part of it
Parses(line) ==
    /\ Len(line) = 2
    /\ line[1].part = "head" /\ line[2].part = "tail"
    /\ line[1].of = line[2].of

\* lines 485-497: one line of the chunk; the React state is a record
ApplyLine(state, line) ==
    IF ~Parses(line) THEN state
    ELSE LET data == line[1].of
         IN  [ progress        |-> IF Has(data, "progress") THEN data.progress
                                   ELSE state.progress,
               currentTest     |-> IF Has(data, "status") /\ data.status # ""
                                   THEN data.status ELSE state.currentTest,
               realtimeMetrics |-> IF Has(data, "metrics") THEN data.metrics
                                   ELSE state.realtimeMetrics,
               testResults     |-> IF Has(data, "results") THEN data.results
                                   ELSE state.testResults,
               applied         |-> Append(state.applied, data) ]

\* lines 484-498: for (const line of lines)
RECURSIVE ApplyLines(_, _)
ApplyLines(state, lines) ==
    IF lines = <<>> THEN state
    ELSE ApplyLines(ApplyLine(state, Head(lines)), Tail(lines))

\* the messages of a run that went through, lines 31-126, in the order they
\* are enqueued; the values the stages returned are in the variables
ResponseMessages(at) ==
    LET text == Fixed2Text(loadTime) \o "s"
        total == testConfig.concurrent * 10
    IN  << ProgressMsg(0, "Initializing performance test...", LoadTimeMetrics("0.0s", 0)),
           ProgressMsg(20, "Measuring page load time...", LoadTimeMetrics("Loading...", 1)),
           MetricsMsg(LoadTimeMetrics(text, 3)),
           ProgressMsg(40, "Checking for broken links...", LoadTimeMetrics(text, 5)) >>
        \o [k \in 1..3 |-> MetricsMsg([requestsProcessed |-> 5 + (k - 1) * 2])]
        \o << ProgressMsg(60, "Testing mobile responsiveness...",
                          LoadTimeMetrics(text, 12)) >>
        \o [k \in 1..4 |-> MetricsMsg([requestsProcessed |-> 12 + (k - 1) * 2])]
        \o << ProgressMsg(80, "Running concurrent user simulation...",
                          LoadTimeMetrics(text, 25)) >>
        \o [k \in 1..10 |->
               MetricsMsg([ requestsProcessed |-> (k * total) \div 10,
                            concurrent |-> (testConfig.concurrent * k) \div 10 ])]
        \o FinishMsgs(<<>>, generateTestResults(url,
                      [ loadTime |-> loadTime, brokenLinks |-> brokenLinks,
                        mobileScore |-> mobileScore,
                        loadTestResults |-> loadTestResults ], at))

\* lines 477-499: reader.read() resolves with the next chunk of the body,
\* which ends after any byte the server has enqueued; the chunk is decoded
\* and its lines are applied
Read ==
    /\ cpc = "reading"
    /\ \E to \in (readTo + 1)..Len(Body(msgs)) :
          LET body == Body(msgs)
              inside == body[to].part # "newline"
              after == ApplyLines(
                  [ progress |-> progress, currentTest |-> currentTest,
                    realtimeMetrics |-> realtimeMetrics, testResults |-> testResults,
                    applied |-> applied ],
                  LinesOf(SubSeq(body, readTo + 1, to)))
          IN  /\ inside => splits < MaxSplits
              /\ splits' = IF inside THEN splits + 1 ELSE splits
              /\ readTo' = to
              /\ progress' = after.progress
              /\ currentTest' = after.currentTest
              /\ realtimeMetrics' = after.realtimeMetrics
              /\ testResults' = after.testResults
              /\ applied' = after.applied
    /\ UNCHANGED <<notRead, vars>>

\* lines 478-479 and 503-506: the body is read to its end and the stream is
\* closed: done, the loop is left and the finally block runs
ReadDone ==
    /\ cpc = "reading"
    /\ closed /\ readTo = Len(Body(msgs))
    /\ cpc' = "finished"
    /\ progress' = 100
    /\ UNCHANGED <<notRead, readTo, splits, currentTest, realtimeMetrics, testResults, applied,
                   input, head, url, testConfig, pc, loopI, msgs, closed, cancelled, thrown,
                   started, completed, loadTime, brokenLinks, mobileScore, loadTestResults>>

\* lines 500-506: reader.read() rejects (the connection is lost): the catch
\* block, then the finally block
ReadFails ==
    /\ cpc = "reading"
    /\ readTo < Len(Body(msgs))
    /\ cpc' = "finished"
    /\ currentTest' = "Test failed"
    /\ progress' = 100
    /\ UNCHANGED <<notRead, readTo, splits, realtimeMetrics, testResults, applied,
                   input, head, url, testConfig, pc, loopI, msgs, closed, cancelled, thrown,
                   started, completed, loadTime, brokenLinks, mobileScore, loadTestResults>>

(***************************************************************************)
(* Concurrent runs of runTest, part_001 lines 522-550: each run constructs *)
(* its own PuppeteerPerformanceTester (lines 10-14), whose probes launch a *)
(* browser each (setupBrowser, lines 16-33) and whose cleanup (lines       *)
(* 508-518) runs in the finally block of the run.                          *)
(***************************************************************************)
MaxProbes == 2

Runs == {1, 2}

\* no run
NoTester == [pc |-> "none", browsers |-> <<>>, probes |-> 0]

\* every browser that is open is closed
CleanupTargetsEveryBrowser(r) == opened

\* lines 510-516: for (const browser of this.browsers)
CleanupTargets(r) ==
    {testers[r].browsers[k] : k \in 1..Len(testers[r].browsers)}

\* lines 11-14 and 523: const tester = new PuppeteerPerformanceTester()
NewTester ==
    /\ \E r \in Runs :
          /\ testers[r].pc = "called"
          /\ testers' = [testers EXCEPT ![r] =
                            [pc |-> "testing", browsers |-> <<>>, probes |-> 0]]
    /\ UNCHANGED <<notRuns, opened, handles>>

\* lines 16-33: a probe of the run launches its browser and pushes the handle
\* on this.browsers
SetupBrowser ==
    /\ \E r \in Runs :
          /\ testers[r].pc = "testing"
          /\ testers[r].probes < MaxProbes
          /\ testers' = [testers EXCEPT ![r].pc = "probing",
                                        ![r].browsers = Append(@, handles + 1)]
    /\ handles' = handles + 1
    /\ opened' = opened \cup {handles + 1}
    /\ UNCHANGED notRuns

\* the finally block of the probe: browser.close() closes the browser the
\* probe launched, or is skipped when page.close() throws
ProbeEnds ==
    /\ \E r \in Runs :
          /\ testers[r].pc = "probing"
          /\ testers' = [testers EXCEPT ![r].pc = "testing", ![r].probes = @ + 1]
          /\ LET own == testers[r].browsers[Len(testers[r].browsers)]
             IN  \/ opened' = opened \ {own}
                 \/ opened' = opened
    /\ UNCHANGED <<notRuns, handles>>

\* lines 547-549 and 508-518: runComprehensiveTest has settled, cleanup
\* closes the browsers of the tester and empties this.browsers
Cleanup ==
    /\ \E r \in Runs :
          /\ testers[r].pc = "testing"
          /\ opened' = opened \ CleanupTargets(r)
          /\ testers' = [testers EXCEPT ![r].pc = "finished", ![r].browsers = <<>>]
    /\ UNCHANGED <<notRuns, handles>>

(***************************************************************************)
(* The specification: one run of the orchestrator, posted by the page or   *)
(* not, or calls of the scoring engine, or one call of runLoadTest, or one *)
(* navigation operation, or one call of runComprehensiveTest, or the page  *)
(* reading the response of a run that went through, or two concurrent runs *)
(* of runTest.                                                             *)
(***************************************************************************)
Init ==
    \/ /\ input = <<>> /\ cpc = "none" /\ head = <<>>
       /\ \E body \in PostBodies : url = body.url /\ testConfig = body.testConfig
       /\ pc = "posted"
       /\ loopI = 0 /\ msgs = <<>> /\ closed = FALSE /\ cancelled = FALSE
       /\ thrown = FALSE /\ started = {} /\ completed = {} /\ loadTime = 0
       /\ brokenLinks = <<>> /\ mobileScore = 0 /\ loadTestResults = <<>>
       /\ sUrl = "" /\ testData = <<>> /\ cResults = <<>>
       /\ now = 0 /\ reports = <<>> /\ overall = <<>>
       /\ options = <<>> /\ lpc = "none" /\ elapsed = 0 /\ batch = <<>>
       /\ results = <<>> /\ batches = 0 /\ summary = <<>>
       /\ op = "none" /\ npc = "none" /\ browsers = 0 /\ browserOpen = FALSE
       /\ pageOpen = FALSE /\ promise = Pending
       /\ ctConfig = <<>> /\ ctTestConfig = <<>> /\ ctResults = <<>> /\ ctStage = 0
       /\ ctpc = "none" /\ ctStarted = <<>> /\ ctCompleted = {} /\ ctError = ""
       /\ readTo = 0 /\ splits = 0 /\ progress = 0 /\ currentTest = ""
       /\ realtimeMetrics = <<>> /\ testResults = <<>> /\ applied = <<>>
       /\ testers = [r \in Runs |-> NoTester] /\ opened = {} /\ handles = 0
    \/ /\ input \in TypedInputs /\ cpc = "typed" /\ head = <<>>
       /\ url = <<>> /\ testConfig = Undefined /\ pc = "none"
       /\ loopI = 0 /\ msgs = <<>> /\ closed = FALSE /\ cancelled = FALSE
       /\ thrown = FALSE /\ started = {} /\ completed = {} /\ loadTime = 0
       /\ brokenLinks = <<>> /\ mobileScore = 0 /\ loadTestResults = <<>>
       /\ sUrl = "" /\ testData = <<>> /\ cResults = <<>>
       /\ now = 0 /\ reports = <<>> /\ overall = <<>>
       /\ options = <<>> /\ lpc = "none" /\ elapsed = 0 /\ batch = <<>>
       /\ results = <<>> /\ batches = 0 /\ summary = <<>>
       /\ op = "none" /\ npc = "none" /\ browsers = 0 /\ browserOpen = FALSE
       /\ pageOpen = FALSE /\ promise = Pending
       /\ ctConfig = <<>> /\ ctTestConfig = <<>> /\ ctResults = <<>> /\ ctStage = 0
       /\ ctpc = "none" /\ ctStarted = <<>> /\ ctCompleted = {} /\ ctError = ""
       /\ readTo = 0 /\ splits = 0 /\ progress = 0 /\ currentTest = ""
       /\ realtimeMetrics = <<>> /\ testResults = <<>> /\ applied = <<>>
       /\ testers = [r \in Runs |-> NoTester] /\ opened = {} /\ handles = 0
    \/ /\ input = <<>> /\ cpc = "none" /\ head = <<>>
       /\ url = <<>> /\ testConfig = Undefined /\ pc = "none"
       /\ loopI = 0 /\ msgs = <<>> /\ closed = FALSE /\ cancelled = FALSE
       /\ thrown = FALSE /\ started = {} /\ completed = {} /\ loadTime = 0
       /\ brokenLinks = <<>> /\ mobileScore = 0 /\ loadTestResults = <<>>
       /\ sUrl \in ScoreUrls
       /\ \/ testData \in TestDataInputs /\ cResults = <<>>
          \/ testData = <<>> /\ cResults \in ResultsInputs
       /\ now = 0 /\ reports = <<>> /\ overall = <<>>
       /\ options = <<>> /\ lpc = "none" /\ elapsed = 0 /\ batch = <<>>
       /\ results = <<>> /\ batches = 0 /\ summary = <<>>
       /\ op = "none" /\ npc = "none" /\ browsers = 0 /\ browserOpen = FALSE
       /\ pageOpen = FALSE /\ promise = Pending
       /\ ctConfig = <<>> /\ ctTestConfig = <<>> /\ ctResults = <<>> /\ ctStage = 0
       /\ ctpc = "none" /\ ctStarted = <<>> /\ ctCompleted = {} /\ ctError = ""
       /\ readTo = 0 /\ splits = 0 /\ progress = 0 /\ currentTest = ""
       /\ realtimeMetrics = <<>> /\ testResults = <<>> /\ applied = <<>>
       /\ testers = [r \in Runs |-> NoTester] /\ opened = {} /\ handles = 0
    \/ /\ input = <<>> /\ cpc = "none" /\ head = <<>>
       /\ url = <<>> /\ testConfig = Undefined /\ pc = "none"
       /\ loopI = 0 /\ msgs = <<>> /\ closed = FALSE /\ cancelled = FALSE
       /\ thrown = FALSE /\ started = {} /\ completed = {} /\ loadTime = 0
       /\ brokenLinks = <<>> /\ mobileScore = 0 /\ loadTestResults = <<>>
       /\ sUrl = "" /\ testData = <<>> /\ cResults = <<>>
       /\ now = 0 /\ reports = <<>> /\ overall = <<>>
       /\ options \in OptionsInputs /\ lpc = "called" /\ elapsed = 0
       /\ batch = <<>> /\ results = <<>> /\ batches = 0 /\ summary = <<>>
       /\ op = "none" /\ npc = "none" /\ browsers = 0 /\ browserOpen = FALSE
       /\ pageOpen = FALSE /\ promise = Pending
       /\ ctConfig = <<>> /\ ctTestConfig = <<>> /\ ctResults = <<>> /\ ctStage = 0
       /\ ctpc = "none" /\ ctStarted = <<>> /\ ctCompleted = {} /\ ctError = ""
       /\ readTo = 0 /\ splits = 0 /\ progress = 0 /\ currentTest = ""
       /\ realtimeMetrics = <<>> /\ testResults = <<>> /\ applied = <<>>
       /\ testers = [r \in Runs |-> NoTester] /\ opened = {} /\ handles = 0
    \/ /\ input = <<>> /\ cpc = "none" /\ head = <<>>
       /\ url = <<>> /\ testConfig = Undefined /\ pc = "none"
       /\ loopI = 0 /\ msgs = <<>> /\ closed = FALSE /\ cancelled = FALSE
       /\ thrown = FALSE /\ started = {} /\ completed = {} /\ loadTime = 0
       /\ brokenLinks = <<>> /\ mobileScore = 0 /\ loadTestResults = <<>>
       /\ sUrl = "" /\ testData = <<>> /\ cResults = <<>>
       /\ now = 0 /\ reports = <<>> /\ overall = <<>>
       /\ options = <<>> /\ lpc = "none" /\ elapsed = 0 /\ batch = <<>>
       /\ results = <<>> /\ batches = 0 /\ summary = <<>>
       /\ op \in NavOperations /\ npc = "called" /\ browsers \in 0..MaxBrowsers
       /\ browserOpen = FALSE /\ pageOpen = FALSE /\ promise = Pending
       /\ ctConfig = <<>> /\ ctTestConfig = <<>> /\ ctResults = <<>> /\ ctStage = 0
       /\ ctpc = "none" /\ ctStarted = <<>> /\ ctCompleted = {} /\ ctError = ""
       /\ readTo = 0 /\ splits = 0 /\ progress = 0 /\ currentTest = ""
       /\ realtimeMetrics = <<>> /\ testResults = <<>> /\ applied = <<>>
       /\ testers = [r \in Runs |-> NoTester] /\ opened = {} /\ handles = 0
    \/ /\ input = <<>> /\ cpc = "none" /\ head = <<>>
       /\ url = <<>> /\ testConfig = Undefined /\ pc = "none"
       /\ loopI = 0 /\ msgs = <<>> /\ closed = FALSE /\ cancelled = FALSE
       /\ thrown = FALSE /\ started = {} /\ completed = {} /\ loadTime = 0
       /\ brokenLinks = <<>> /\ mobileScore = 0 /\ loadTestResults = <<>>
       /\ sUrl = "" /\ testData = <<>> /\ cResults = <<>>
       /\ now = 0 /\ reports = <<>> /\ overall = <<>>
       /\ options = <<>> /\ lpc = "none" /\ elapsed = 0 /\ batch = <<>>
       /\ results = <<>> /\ batches = 0 /\ summary = <<>>
       /\ op = "none" /\ npc = "none" /\ browsers = 0 /\ browserOpen = FALSE
       /\ pageOpen = FALSE /\ promise = Pending
       /\ ctConfig \in ComprehensiveConfigs /\ ctTestConfig = <<>> /\ ctResults = <<>>
       /\ ctStage = 0 /\ ctpc = "called" /\ ctStarted = <<>> /\ ctCompleted = {}
       /\ ctError = ""
       /\ readTo = 0 /\ splits = 0 /\ progress = 0 /\ currentTest = ""
       /\ realtimeMetrics = <<>> /\ testResults = <<>> /\ applied = <<>>
       /\ testers = [r \in Runs |-> NoTester] /\ opened = {} /\ handles = 0
    \/ /\ input = <<"l","o","c","a","l","h","o","s","t",":","3","0","0","0">>
       /\ cpc = "reading" /\ head = <<>>
       /\ url = UrlLocal /\ testConfig = getTestConfig /\ pc = "done"
       /\ loopI = 0 /\ closed = TRUE /\ cancelled = FALSE
       /\ thrown = FALSE /\ started = AllStages /\ completed = AllStages
       /\ loadTime = 30 /\ brokenLinks = <<>> /\ mobileScore = 85
       /\ loadTestResults = simulateLoadTestResult(10, 0, 50, 200)
       /\ msgs = ResponseMessages(0)
       /\ sUrl = "" /\ testData = <<>> /\ cResults = <<>>
       /\ now = 0 /\ reports = <<>> /\ overall = <<>>
       /\ options = <<>> /\ lpc = "none" /\ elapsed = 0 /\ batch = <<>>
       /\ results = <<>> /\ batches = 0 /\ summary = <<>>
       /\ op = "none" /\ npc = "none" /\ browsers = 0 /\ browserOpen = FALSE
       /\ pageOpen = FALSE /\ promise = Pending
       /\ ctConfig = <<>> /\ ctTestConfig = <<>> /\ ctResults = <<>> /\ ctStage = 0
       /\ ctpc = "none" /\ ctStarted = <<>> /\ ctCompleted = {} /\ ctError = ""
       /\ readTo = 0 /\ splits = 0 /\ progress = 0
       /\ currentTest = "Initializing test..."
       /\ realtimeMetrics = <<>> /\ testResults = <<>> /\ applied = <<>>
       /\ testers = [r \in Runs |-> NoTester] /\ opened = {} /\ handles = 0
    \/ /\ input = <<>> /\ cpc = "none" /\ head = <<>>
       /\ url = <<>> /\ testConfig = Undefined /\ pc = "none"
       /\ loopI = 0 /\ msgs = <<>> /\ closed = FALSE /\ cancelled = FALSE
       /\ thrown = FALSE /\ started = {} /\ completed = {} /\ loadTime = 0
       /\ brokenLinks = <<>> /\ mobileScore = 0 /\ loadTestResults = <<>>
       /\ sUrl = "" /\ testData = <<>> /\ cResults = <<>>
       /\ now = 0 /\ reports = <<>> /\ overall = <<>>
       /\ options = <<>> /\ lpc = "none" /\ elapsed = 0 /\ batch = <<>>
       /\ results = <<>> /\ batches = 0 /\ summary = <<>>
       /\ op = "none" /\ npc = "none" /\ browsers = 0 /\ browserOpen = FALSE
       /\ pageOpen = FALSE /\ promise = Pending
       /\ ctConfig = <<>> /\ ctTestConfig = <<>> /\ ctResults = <<>> /\ ctStage = 0
       /\ ctpc = "none" /\ ctStarted = <<>> /\ ctCompleted = {} /\ ctError = ""
       /\ readTo = 0 /\ splits = 0 /\ progress = 0 /\ currentTest = ""
       /\ realtimeMetrics = <<>> /\ testResults = <<>> /\ applied = <<>>
       /\ testers = [r \in Runs |-> [pc |-> "called", browsers |-> <<>>, probes |-> 0]]
       /\ opened = {} /\ handles = 0

Next ==
    \/ Submit
    \/ Start
    \/ BeginLoadTime
    \/ LoadTimeLocal
    \/ LoadTimeFetched
    \/ LoadTimeFallback
    \/ BeginLinkCheck
    \/ LinkCheckStep
    \/ BeginMobile
    \/ MobileStep
    \/ BeginLoadTest
    \/ LoadTestStep
    \/ Finish
    \/ Cancel
    \/ EnqueueThrows
    \/ ScoreTick
    \/ ScoreCall
    \/ OverallCall
    \/ RunLoadTest
    \/ Settle
    \/ BatchSettled
    \/ PauseOver
    \/ NavLaunch
    \/ NavNewPage
    \/ NavBody
    \/ NavClosePage
    \/ NavCloseBrowser
    \/ ComprehensiveCall
    \/ ProbeResolves
    \/ ProbeRejects
    \/ Read
    \/ ReadDone
    \/ ReadFails
    \/ NewTester
    \/ SetupBrowser
    \/ ProbeEnds
    \/ Cleanup

Spec == Init /\ [][Next]_allVars

(***************************************************************************)
(* Claims about the streaming orchestrator, checked under Spec.            *)
(***************************************************************************)
\* the positions of the messages that carry the key k
Carrying(k) == {n \in 1..Len(msgs) : Has(msgs[n], k)}

LastOf(S) == CHOOSE n \in S : \A m \in S : m <= n

\* C1: the progress values of the emitted messages never decrease, and in a
\* run with a configuration (testConfig present) that runs to its end, the
\* consumer staying connected, the last progress value emitted is 100.
C1_ProgressMonotone ==
    /\ \A a, b \in Carrying("progress") :
          a < b => msgs[a].progress <= msgs[b].progress
    /\ (pc = "done" /\ testConfig # Undefined) =>
          /\ Carrying("progress") # {}
          /\ msgs[LastOf(Carrying("progress"))].progress = 100

C1_Witness ==
    /\ pc = "done" /\ testConfig # Undefined
    /\ {msgs[n].progress : n \in Carrying("progress")} = {0, 20, 40, 60, 80, 100}

\* C6: when a stage throws, the orchestrator emits exactly one Failure
\* message (error, message), which ends the stream; it starts none of the
\* remaining stages, emits no message with a report, and closes the stream.
C6_FailFast ==
    /\ Carrying("error") # {} => thrown
    /\ thrown =>
          /\ Cardinality(Carrying("error")) = 1
          /\ Carrying("error") = {Len(msgs)}
          /\ Has(msgs[Len(msgs)], "message")
          /\ Carrying("results") = {}
          /\ "load-test" \notin started
          /\ completed = started
          /\ closed
          /\ pc = "done"
          /\ ~ENABLED Next

C6_Witness ==
    /\ thrown
    /\ started = {"load-time", "link-integrity", "mobile"}
    /\ Has(msgs[Len(msgs)], "error")

\* a step of the run of the orchestrator
C_RunStep ==
    \/ Start \/ BeginLoadTime \/ LoadTimeLocal \/ LoadTimeFetched \/ LoadTimeFallback
    \/ BeginLinkCheck \/ LinkCheckStep \/ BeginMobile \/ MobileStep \/ BeginLoadTest
    \/ LoadTestStep \/ Finish \/ Cancel \/ EnqueueThrows

\* C7: when every stage succeeds the orchestrator emits exactly one Final
\* message carrying the complete report; it is the last message of the
\* stream, it is emitted only after the four stages have completed, and the
\* stream is then closed.
C7_FinalReport ==
    /\ Carrying("results") # {} =>
          /\ completed = AllStages
          /\ pc = "done"
    /\ (pc = "done" /\ ~thrown) =>
          /\ Cardinality(Carrying("results")) = 1
          /\ Carrying("results") = {Len(msgs)}
          /\ closed
          /\ ~ENABLED C_RunStep
          /\ LET report == msgs[Len(msgs)].results
             IN  /\ report.url = url
                 /\ report.loadTime = loadTime
                 /\ report.mobileScore = mobileScore
                 /\ report.brokenLinks = brokenLinks
                 /\ report.totalRequests = loadTestResults.totalRequests
                 /\ report.failedRequests = loadTestResults.failedRequests
                 /\ report.overallScore \in 0..100

C7_Witness ==
    /\ pc = "done" /\ ~thrown /\ closed
    /\ completed = AllStages
    /\ Has(msgs[Len(msgs)], "results")

\* C8: in every load-test summary the number of failed requests is at most
\* the total number of requests, for every concurrency level and duration:
\* for the simulated generator (simulateLoadTest) and for the browser-driven
\* generator (runLoadTest).
C8_FailedAtMostTotal ==
    /\ Has(loadTestResults, "totalRequests") =>
          loadTestResults.failedRequests <= loadTestResults.totalRequests
    /\ Has(summary, "totalRequests") =>
          summary.failedRequests <= summary.totalRequests

(***************************************************************************)
(* Claims about the load generators.                                       *)
(***************************************************************************)
\* the recorded outcomes the summary counts as successful
C_SuccessIdx == {k \in 1..Len(results) : ~Has(results[k], "error")}

\* C9: the total request count of the load generator is the number of
\* outcomes recorded, which is the number of completed batches times the
\* batch size (each batch has exactly `concurrent` members), and
\* successfulRequests + failedRequests = totalRequests.
C9_TotalIsSumOfBatches ==
    /\ Len(results) = batches * (IF lpc = "none" THEN 0 ELSE options.concurrent)
    /\ lpc = "batch" => Len(batch) = options.concurrent
    /\ lpc = "done" =>
          /\ summary.totalRequests = Len(results)
          /\ summary.totalRequests = batches * options.concurrent
          /\ summary.successfulRequests + summary.failedRequests
                = summary.totalRequests
    /\ Has(loadTestResults, "totalRequests") =>
          loadTestResults.totalRequests = 10 * testConfig.concurrent

C9_Witness ==
    /\ lpc = "done" /\ batches = 2 /\ options.concurrent = 2
    /\ summary.totalRequests = 4
    /\ summary.failedRequests = 1

RECURSIVE C10_Sum(_)
C10_Sum(S) ==
    IF S = {} THEN 0
    ELSE LET k == CHOOSE x \in S : TRUE
         IN  results[k].loadTime + C10_Sum(S \ {k})

C10_WitnessNoSuccess ==
    /\ lpc = "done" /\ Len(results) >= 2
    /\ C_SuccessIdx = {}
    /\ summary.averageLoadTime = <<>>

(***************************************************************************)
(* Claims about the submission of a run and the load-time probe.           *)
(***************************************************************************)
\* the text is a bare host:port of one of the four private patterns
C_PrivateHostPort(str) == Len(str) + 1 \in localhostPatterns(str)

\* C11: for a private-host input (a bare host:port of the localhost,
\* 127.0.0.1, 192.168.x.x or 10.x.x.x pattern) normalization returns the
\* input prefixed with http://, that is the URL the page posts, and the
\* load-time probe run on it never issues the HEAD request.
C11_PrivateHostStaysLocal ==
    (cpc # "none" /\ C_PrivateHostPort(input)) =>
        /\ formatUrl(input) = <<"h","t","t","p",":","/","/">> \o input
        /\ cpc = "fetching" =>
              /\ url = <<"h","t","t","p",":","/","/">> \o input
              /\ head = <<>>
              /\ pc # "lt_fetch"

C11_Witness ==
    /\ cpc = "fetching"
    /\ input = <<"l","o","c","a","l","h","o","s","t",":","3","0","0","0">>
    /\ url = <<"h","t","t","p",":","/","/","l","o","c","a","l","h","o","s","t",":","3","0","0","0">>
    /\ "load-time" \in completed
    /\ head = <<>>

\* the requests of the probe that have not settled
C_OpenRequests == {n \in 1..Len(head) : head[n].outcome = "pending"}

\* C12: once the consumer has cancelled the stream of a run in progress, no
\* message with a report is emitted; the next step of the run, its next
\* resumption, is its last: it starts no stage and emits nothing; and the
\* only resource of the run, the HEAD request in flight, is bounded by its
\* 10 s timeout and is no longer open once the run has ended.
C12_CancelEndsRun ==
    /\ [](cancelled =>
            /\ Carrying("results") = {}
            /\ ~closed
            /\ \A n \in C_OpenRequests : head[n].timeout = 10000
            /\ pc \in Running => ENABLED EnqueueThrows
            /\ pc \notin Running => pc = "rejected" /\ C_OpenRequests = {})
    /\ [][cancelled =>
            /\ pc' = "rejected"
            /\ started' = started
            /\ msgs' = msgs
            /\ C_OpenRequests' = {}]_allVars

\* the stream is cancelled while the HEAD request is in flight
C12_Witness ==
    /\ cancelled /\ pc = "rejected"
    /\ started = {"load-time"} /\ completed = {}
    /\ Len(head) = 1 /\ head[1].outcome = "failed"

\* the url handed to POST is no absolute http or https URL and no private
\* host:port
C_Invalid(str) == ~isValidUrl(str)

\* C13: a URL that neither parses as an absolute http / https URL nor
\* matches a private host:port pattern is rejected before any stage runs:
\* no stage starts and no message is emitted, for the URL the page is about
\* to post and for the URL that POST receives.
C13_InvalidUrlRejected ==
    /\ (cpc \in {"returned", "fetching"} /\ C_Invalid(formatUrl(input))) =>
          pc = "none" /\ started = {} /\ msgs = <<>>
    /\ (pc # "none" /\ C_Invalid(url)) => started = {} /\ msgs = <<>>

(***************************************************************************)
(* Claims about the navigation operations.                                 *)
(***************************************************************************)
\* C14: when a navigation operation has finished, by returning or by
\* throwing at any step, the browser and the page it acquired are closed.
C14_HandlesClosed ==
    npc = "finished" => ~browserOpen /\ ~pageOpen

(***************************************************************************)
(* More claims about the scoring engine.                                   *)
(***************************************************************************)
\* the number of issues whose description has the fragment
C_IssueCount(issues, fragment) ==
    Cardinality({k \in 1..Len(issues) : fragment \in Range(issues[k].description)})

C_One(condition) == IF condition THEN 1 ELSE 0

\* C15: the report has exactly one issue for each category that deducts
\* points (load time above 1 s, mobile score below 90, failed requests > 0,
\* broken links > 0), none for a category that deducts nothing, and every
\* issue has severity high or medium.
C15_IssuePerDeductingCategory ==
    \A n \in 1..Len(reports) :
        LET issues == reports[n].issues
        IN  /\ C_IssueCount(issues, "Page load time is ")
                  = C_One(testData.loadTime > 100)
            /\ C_IssueCount(issues, "Mobile responsiveness could be improved")
                  = C_One(testData.mobileScore < 90)
            /\ C_IssueCount(issues, " requests failed during load testing")
                  = C_One(testData.loadTestResults.failedRequests > 0)
            /\ C_IssueCount(issues, " broken links")
                  = C_One(Len(testData.brokenLinks) > 0)
            /\ Len(issues) = C_One(testData.loadTime > 100)
                  + C_One(testData.mobileScore < 90)
                  + C_One(testData.loadTestResults.failedRequests > 0)
                  + C_One(Len(testData.brokenLinks) > 0)
            /\ \A k \in 1..Len(issues) : issues[k].severity \in {"high", "medium"}

\* the fixed recommendation of each category, in the order of the categories
C16_Fixed(issues) ==
    (IF C_IssueCount(issues, "Page load time is ") > 0
        THEN <<"Optimize images and enable compression to reduce load times">>
        ELSE <<>>)
    \o (IF C_IssueCount(issues, "Mobile responsiveness could be improved") > 0
        THEN <<"Ensure responsive design works well on all device sizes">>
        ELSE <<>>)
    \o (IF C_IssueCount(issues, " broken links") > 0
        THEN <<"Fix broken links to improve user experience and SEO">>
        ELSE <<>>)
    \o (IF C_IssueCount(issues, " requests failed during load testing") > 0
        THEN <<"Investigate server stability under load">>
        ELSE <<>>)

\* C16: the recommendation list has exactly one fixed string for each
\* category that has an issue and none for the others, so it is as long as
\* the issue list and is determined by the set of categories that fired,
\* whatever the measured values.
C16_RecommendationPerCategory ==
    \A n \in 1..Len(reports) :
        /\ reports[n].recommendations = C16_Fixed(reports[n].issues)
        /\ Len(reports[n].recommendations) = Len(reports[n].issues)
        /\ Cardinality(Range(reports[n].recommendations))
              = Len(reports[n].recommendations)

\* two broken links and twenty failed requests: one recommendation each
C16_Witness ==
    \E n \in 1..Len(reports) :
        /\ Len(reports[n].brokenLinks) = 2
        /\ reports[n].failedRequests = 20
        /\ reports[n].loadTime <= 200
        /\ Len(reports[n].recommendations) = 2 + C_One(reports[n].mobileScore < 85)

\* the score of the bundle of the harness with one metric replaced
C17_Score(data) == generateTestResults(sUrl, data, now).overallScore

\* C17: with the other metrics held fixed, a larger loadTime, failedRequests
\* or number of broken links never gives a larger score and a larger
\* mobileScore never gives a smaller one.
C17_ScoreMonotone ==
    \A n \in 1..Len(reports) :
        /\ \A t \in LoadTimeInputs :
              t >= testData.loadTime =>
                 C17_Score([testData EXCEPT !.loadTime = t]) <= reports[n].overallScore
        /\ \A f \in FailedInputs :
              f >= testData.loadTestResults.failedRequests =>
                 C17_Score([testData EXCEPT !.loadTestResults.failedRequests = f])
                    <= reports[n].overallScore
        /\ \A links \in BrokenInputs :
              Len(links) >= Len(testData.brokenLinks) =>
                 C17_Score([testData EXCEPT !.brokenLinks = links])
                    <= reports[n].overallScore
        /\ \A m \in MobileInputs :
              m >= testData.mobileScore =>
                 C17_Score([testData EXCEPT !.mobileScore = m]) >= reports[n].overallScore

\* a bundle between two load-time brackets, scored neither 0 nor 100
C17_Witness ==
    \E n \in 1..Len(reports) :
        /\ testData.loadTime = 201
        /\ reports[n].overallScore \in 1..89
        /\ C17_Score([testData EXCEPT !.loadTime = 301]) < reports[n].overallScore

(***************************************************************************)
(* More claims about the load-time probe and the load generator.           *)
(***************************************************************************)
\* C18: when the HEAD request of the probe fails or times out, the probe
\* returns a fallback value of its range (1.00 to 4.00 s), no failure is
\* sent and the run goes on, and the result is marked degraded = true in
\* what the run emits.
C18_FallbackMarkedDegraded ==
    (head # <<>> /\ head[1].outcome = "failed" /\ "load-time" \in completed) =>
        /\ loadTime \in 100..400
        /\ pc = "lt_done" => Carrying("error") = {} /\ ~closed
        /\ \E n \in Carrying("metrics") :
              /\ Has(msgs[n].metrics, "degraded")
              /\ msgs[n].metrics.degraded = TRUE

\* the host of an absolute URL: between "://" and the next ":" or "/"
C_Host(u) ==
    LET start == FirstIn(u, 1, {":"}) + 3
    IN  SubSeq(u, start, FirstIn(u, start, {":", "/", "?", "#"}) - 1)

C_PrivateHost(host) ==
    \/ host = <<"l","o","c","a","l","h","o","s","t">>
    \/ host = <<"1","2","7",".","0",".","0",".","1">>
    \/ StartsWith(host, <<"1","9","2",".","1","6","8",".">>)
    \/ StartsWith(host, <<"1","0",".">>)

\* C19: for every URL with a public host the probe issues one HEAD request
\* with a 10 s timeout and, when it is answered, returns the elapsed time;
\* the synthetic local value is returned only for private hosts.
C19_PublicHostProbed ==
    (isValidUrl(url) /\ "load-time" \in started) =>
        IF C_PrivateHost(C_Host(url))
        THEN head = <<>>
        ELSE /\ pc # "lt_local"
             /\ Len(head) = 1
             /\ head[1].method = "HEAD" /\ head[1].timeout = 10000
             /\ head[1].url = url
             /\ (head[1].outcome = "ok" /\ "load-time" \in completed) =>
                    loadTime \in {ToFixed2(ms) : ms \in FetchElapsed}

\* the navigations of a settled batch that failed
C_FailedInBatch(b) ==
    {k \in 1..Len(b) : b[k].status = "rejected" \/ Has(b[k].value, "error")}

C_ErrorIdx(res) == {k \in 1..Len(res) : Has(res[k], "error")}

\* C20: a navigation that fails, by an error of the navigation or by failing
\* to acquire or release its browser or page, does not fail the batch or
\* runLoadTest: the batch is recorded, the loop goes on, a summary is
\* returned, and every such failure is one failed request of the summary.
C20_FailureIsOneFailedRequest ==
    /\ [](/\ (lpc = "batch" /\ \A k \in 1..Len(batch) : batch[k] # Pending) =>
                ENABLED BatchSettled
          /\ lpc = "pause" => ENABLED PauseOver
          /\ lpc = "done" =>
                /\ summary.failedRequests = Cardinality(C_ErrorIdx(results))
                /\ Len(summary.errors) = summary.failedRequests
                /\ summary.totalRequests = Len(results))
    /\ [][(lpc = "batch" /\ lpc' # "batch") =>
            /\ lpc' = "pause"
            /\ Len(results') = Len(results) + Len(batch)
            /\ Cardinality(C_ErrorIdx(results'))
                  = Cardinality(C_ErrorIdx(results)) + Cardinality(C_FailedInBatch(batch))]_allVars

\* a load test in which one navigation failed and one browser did not launch
C20_Witness ==
    /\ lpc = "done"
    /\ summary.failedRequests = 2
    /\ "Failed to launch the browser process" \in Range(summary.errors)
    /\ "Navigation timeout of 30000 ms exceeded" \in Range(summary.errors)
    /\ summary.successfulRequests >= 1

(***************************************************************************)
(* Claims about the batches of the load generator.                         *)
(***************************************************************************)
\* the navigations of the load test that have not settled
C_InFlight == {k \in 1..Len(batch) : batch[k] = Pending}

\* C21: no navigation of the next batch is started before every navigation
\* of the batch before it has settled: while a batch is in flight the
\* outcomes of all the batches before it are recorded, during the pause and
\* after the stage has returned no navigation is in flight, and so at most
\* `concurrent` navigations of the load test are in flight at any time.
C21_BatchesDoNotOverlap ==
    /\ lpc = "batch" =>
          /\ Len(batch) = options.concurrent
          /\ Len(results) = batches * options.concurrent
    /\ lpc \in {"pause", "done"} => C_InFlight = {}
    /\ lpc = "done" => summary.totalRequests = batches * options.concurrent
    /\ lpc # "none" => Cardinality(C_InFlight) <= options.concurrent

\* the second batch in flight, one of its navigations settled
C21_Witness ==
    /\ lpc = "batch" /\ batches = 1 /\ options.concurrent = 2
    /\ Cardinality(C_InFlight) = 1
    /\ Len(results) = 2

(***************************************************************************)
(* Claims about the order and the selection of the stages.                 *)
(***************************************************************************)
\* the place of a stage in the precedence order load-time, link-integrity,
\* mobile, load-test, optional stages; desktop is the load-time measurement
\* of runComprehensiveTest
C_Rank(name) ==
    CASE name \in {"load-time", "desktop"} -> 1
      [] name = "link-integrity" -> 2
      [] name = "mobile" -> 3
      [] name \in {"load-test", "loadTest"} -> 4
      [] OTHER -> 5

\* C22: the stages run in the order load-time, link-integrity, mobile,
\* load-test, then the optional accessibility and forms stages, and a stage
\* starts only after the stages before it have completed: in the streaming
\* orchestrator and in runComprehensiveTest.
C22_StageOrder ==
    /\ \A s \in started, t \in AllStages :
          C_Rank(t) < C_Rank(s) => t \in completed
    /\ \A a, b \in 1..Len(ctStarted) :
          a < b => /\ C_Rank(ctStarted[a]) <= C_Rank(ctStarted[b])
                   /\ ctStarted[a] \in ctCompleted

\* the flag of the request's testConfig that stands for a stage of the
\* orchestrator (the load-time stage has none)
C_Flag ==
    [x \in {"link-integrity", "mobile", "load-test"} |->
        IF x = "link-integrity" THEN "linkCheck"
        ELSE IF x = "mobile" THEN "mobileTest" ELSE "loadTest"]

\* C23: only the stages the configuration enables are executed: a stage
\* whose flag is set to false is never started and emits no message, in the
\* orchestrator and in runComprehensiveTest, and no batch of the load test is
\* launched once the configured duration has elapsed.
C23_OnlyEnabledStagesRun ==
    /\ \A s \in started \cap DOMAIN C_Flag :
          Has(testConfig, C_Flag[s]) => testConfig[C_Flag[s]]
    /\ (Has(testConfig, "linkCheck") /\ ~testConfig.linkCheck) =>
          \A n \in 1..Len(msgs) :
              ~(Has(msgs[n], "status") /\ msgs[n].status = "Checking for broken links...")
    /\ \A k \in 1..Len(ctStarted) : ctTestConfig[StageFlag[ctStarted[k]]]
    /\ lpc = "batch" => elapsed < options.duration

(***************************************************************************)
(* Claims about the messages on their way to the consumer.                 *)
(***************************************************************************)
\* C24: the metrics snapshot the page shows only accumulates keys: a metric
\* name present in realtimeMetrics stays present after every later message
\* of the run, a partial metrics update included.
C24_MetricsKeysAccumulate ==
    [][\A k \in DOMAIN realtimeMetrics : k \in DOMAIN realtimeMetrics']_allVars

\* s can be obtained from t by leaving elements out, the order kept
RECURSIVE C_Embeds(_, _)
C_Embeds(s, t) ==
    IF s = <<>> THEN TRUE
    ELSE IF t = <<>> THEN FALSE
    ELSE IF Head(s) = Head(t) THEN C_Embeds(Tail(s), Tail(t))
    ELSE C_Embeds(s, Tail(t))

\* C25: the messages reach the consumer in the order the orchestrator
\* generated them: the bytes read are the bytes enqueued, in their order, and
\* what the reader has applied is a list of emitted messages in the order of
\* their emission, each one whole and none applied twice (no reordering, no
\* two events in one message).
C25_MessagesInOrder ==
    cpc \in {"reading", "finished"} =>
        /\ readTo <= Len(Body(msgs))
        /\ \A a \in 1..Len(applied) : \E n \in 1..Len(msgs) : applied[a] = msgs[n]
        /\ \A a, b \in 1..Len(applied) : a # b => applied[a] # applied[b]
        /\ C_Embeds(applied, msgs)

\* the whole stream read to its end, every message applied
C25_Witness ==
    /\ cpc = "finished" /\ readTo = Len(Body(msgs))
    /\ applied = msgs /\ Len(applied) = 25
    /\ Has(testResults, "overallScore")

\* C26: the reader decodes every message the server emitted exactly once,
\* however the transport splits the bytes into chunks: once the whole body
\* has been read, what the reader has applied is the list of the messages
\* emitted, a message whose bytes came in two reads included.
C26_EveryMessageDecodedOnce ==
    (cpc \in {"reading", "finished"} /\ readTo = Len(Body(msgs))) => applied = msgs

(***************************************************************************)
(* Claims about concurrent runs.                                           *)
(***************************************************************************)
\* what a run has of its own: where it is, the probes it has done, its
\* this.browsers and which of these browsers are open
C_Own(r) == <<testers[r], opened \cap CleanupTargets(r)>>

\* C27: concurrent runs are independent: a step of one run (a probe
\* launching or closing its browser, or cleanup) changes nothing of another
\* run: neither where it is, nor its progress, nor its this.browsers, nor
\* which of its browsers are open.
C27_RunsIndependent ==
    [][\A r1, r2 \in Runs :
          r1 # r2 => (C_Own(r1)' = C_Own(r1) \/ C_Own(r2)' = C_Own(r2))]_allVars

\* one run has cleaned up while a probe of the other has its browser open
C27_Witness ==
    /\ testers[1].pc = "finished"
    /\ testers[2].pc = "probing"
    /\ opened \cap CleanupTargets(2) # {}
    /\ handles >= 2

(***************************************************************************)
(* Claims about the end of the stream and the request counter.             *)
(***************************************************************************)
\* the positions of the terminal messages: the Final report and the Failure
C_Terminal == Carrying("results") \cup Carrying("error")

\* C28: in a run whose stream is not cancelled the controller is closed
\* exactly once, after the last message: a run that has ended is closed, a
\* closed stream stays closed and gets no further message, and it holds
\* exactly one terminal message, its last, which is either the Final report
\* or the Failure, never both; before the close there is no terminal message.
C28_ClosedOnceAfterLastMessage ==
    /\ [](/\ (pc = "done" /\ ~cancelled) => closed
          /\ closed =>
                /\ pc = "done"
                /\ C_Terminal = {Len(msgs)}
                /\ Has(msgs[Len(msgs)], "results") # Has(msgs[Len(msgs)], "error")
          /\ ~closed => C_Terminal = {})
    /\ [][closed => (closed' /\ msgs' = msgs)]_allVars

\* a run that went through, closed after its report
C28_Witness ==
    /\ closed /\ ~cancelled /\ pc = "done" /\ cpc = "none"
    /\ Len(msgs) = 25
    /\ C_Terminal = {25}
    /\ Carrying("error") = {}

\* the positions of the messages whose metrics carry requestsProcessed
C_Counting ==
    {n \in 1..Len(msgs) :
        Has(msgs[n], "metrics") /\ Has(msgs[n].metrics, "requestsProcessed")}

\* C29: within one run the requestsProcessed values of the successive
\* messages never decrease, whatever the configured concurrency.
C29_RequestsProcessedMonotone ==
    \A a, b \in C_Counting :
        a < b => msgs[a].metrics.requestsProcessed <= msgs[b].metrics.requestsProcessed

(***************************************************************************)
(* Claims about runComprehensiveTest.                                      *)
(***************************************************************************)
\* the stages before the k-th whose flag is set
C_EnabledBefore(k) ==
    {j \in 1..(k - 1) : ctTestConfig[StageFlag[ComprehensiveStages[j]]]}

\* C30: measurePageMetrics, checkAccessibility and testFormInteractions
\* report a navigation failure as an error-valued result instead of
\* throwing: a navigation failure never makes runComprehensiveTest reject,
\* the run goes on to every remaining enabled stage after a failed probe,
\* and the result it returns has a key for every enabled stage and a
\* performanceScore within [0,100].  (The run rejects only when a browser or
\* a page cannot be acquired or released, outside the try block of a probe.)
C30_ProbesReportFailure ==
    /\ ctpc = "rejected" => ctError # NavigationTimeout
    /\ ctpc = "awaiting" =>
          \A j \in C_EnabledBefore(ctStage) : Has(ctResults, ComprehensiveStages[j])
    /\ ctpc = "returned" =>
          /\ \A j \in 1..Len(ComprehensiveStages) :
                Has(ctResults, ComprehensiveStages[j])
                    <=> ctTestConfig[StageFlag[ComprehensiveStages[j]]]
          /\ Has(ctResults, "performanceScore")
          /\ ctResults.performanceScore \in 0..100

\* every probe failed at its navigation, the load test still ran and the
\* result is returned with its score
C30_Witness ==
    /\ ctpc = "returned"
    /\ ctCompleted = {"desktop", "mobile", "accessibility", "forms", "loadTest"}
    /\ Has(ctResults.desktop, "error") /\ Has(ctResults.mobile, "error")
    /\ Has(ctResults.accessibility, "error") /\ Has(ctResults.forms, "error")
    /\ ctResults.loadTest.totalRequests = 2
    /\ ctResults.performanceScore \in 0..100

====
